---- MODULE Spec2Model ----
(***************************************************************************)
(* AgentCore provisioning scripts and the MCP script generators.           *)
(*                                                                         *)
(* Two layers are modelled:                                                *)
(*   - the MCP tool handlers (handlers/*.py): pure functions from an       *)
(*     argument dict to a payload {code, filename, instructions};          *)
(*   - the scripts those handlers generate (and the standalone scripts),   *)
(*     run step by step against the JSON config files on disk and the      *)
(*     AWS resources they call.                                            *)
(*                                                                         *)
(* A Python str is a sequence of one-character strings, a dict is a        *)
(* function on its keys, a list is a sequence.  A generated script is its  *)
(* template (the handler it came from) with the interpolation slots of the *)
(* f-string, in source order.                                              *)
(***************************************************************************)
EXTENDS Integers, Sequences, FiniteSets, TLC

VARIABLES
    call,     \* the last handler call: [handler, args]
    result,   \* what that call produced: a returned payload or a raised error
    files,    \* the JSON config files on local disk
    cloud,    \* the AWS resources
    run       \* the script process being run (or idle)

vars == <<call, result, files, cloud, run>>

(***************************************************************************)
(* Bounds                                                                  *)
(***************************************************************************)
MaxStrategies == 2

\* the scripts run one after another
MaxRuns == 2

(***************************************************************************)
(* Python str operations                                                   *)
(***************************************************************************)
UpperLetters ==
    <<"A","B","C","D","E","F","G","H","I","J","K","L","M",
      "N","O","P","Q","R","S","T","U","V","W","X","Y","Z">>

LowerLetters ==
    <<"a","b","c","d","e","f","g","h","i","j","k","l","m",
      "n","o","p","q","r","s","t","u","v","w","x","y","z">>

LowerChar(c) ==
    IF \E i \in DOMAIN UpperLetters : UpperLetters[i] = c
    THEN LowerLetters[CHOOSE i \in DOMAIN UpperLetters : UpperLetters[i] = c]
    ELSE c

\* s.lower()
str_lower(s) == [i \in 1..Len(s) |-> LowerChar(s[i])]

\* s.replace(old, new) for one-character old and new
str_replace(s, old, new) == [i \in 1..Len(s) |-> IF s[i] = old THEN new ELSE s[i]]

\* p in s
str_in(p, s) == \E i \in 0..(Len(s) - Len(p)) : SubSeq(s, i + 1, i + Len(p)) = p

STR_empty == <<>>
STR_summary == <<"s","u","m","m","a","r","y">>
STR_preferences == <<"p","r","e","f","e","r","e","n","c","e","s">>
STR_semantic == <<"s","e","m","a","n","t","i","c">>
STR_Summary == <<"S","u","m","m","a","r","y">>
STR_SEMANTIC == <<"S","E","M","A","N","T","I","C">>
STR_Preferences == <<"P","r","e","f","e","r","e","n","c","e","s">>
STR_custom == <<"c","u","s","t","o","m">>
STR_summaries == <<"s","u","m","m","a","r","i","e","s">>
STR_us_west_2 == <<"u","s","-","w","e","s","t","-","2">>
STR_eu_west_1 == <<"e","u","-","w","e","s","t","-","1">>
STR_MCP == <<"M","C","P">>
STR_SSE == <<"S","S","E">>
STR_mcp == <<"m","c","p">>
STR_CUSTOM_JWT == <<"C","U","S","T","O","M","_","J","W","T">>
STR_AWS_IAM == <<"A","W","S","_","I","A","M">>
STR_NO_MEMORY == <<"N","O","_","M","E","M","O","R","Y">>
STR_STM_ONLY == <<"S","T","M","_","O","N","L","Y">>
STR_requirements_txt == <<"r","e","q","u","i","r","e","m","e","n","t","s",".","t","x","t">>
STR_reqs_txt == <<"r","e","q","s",".","t","x","t">>
STR_create_py == <<"_","c","r","e","a","t","e",".","p","y">>
STR_gateway_create_py == <<"_","g","a","t","e","w","a","y","_","c","r","e","a","t","e",".","p","y">>
STR_add_ == <<"a","d","d","_">>
STR_target_py == <<"_","t","a","r","g","e","t",".","p","y">>
STR_store_memory_event_ == <<"s","t","o","r","e","_","m","e","m","o","r","y","_","e","v","e","n","t","_">>
STR_py == <<".","p","y">>
STR_not_found == <<"n","o","t"," ","f","o","u","n","d">>
STR_does_not_exist == <<"d","o","e","s"," ","n","o","t"," ","e","x","i","s","t">>
STR_resourcenotfound == <<"r","e","s","o","u","r","c","e","n","o","t","f","o","u","n","d">>
STR_ResourceNotFound == <<"R","e","s","o","u","r","c","e","N","o","t","F","o","u","n","d">>

(***************************************************************************)
(* Python dict operations                                                  *)
(***************************************************************************)
EmptyDict == [k \in {} |-> TRUE]

\* {k: v}
Arg(k, v) == [x \in {k} |-> v]

\* an entry that may be left out of the dict
Opt(S) == {[present |-> FALSE]} \cup {[present |-> TRUE, v |-> s] : s \in S}
OptArg(k, o) == IF o.present THEN Arg(k, o.v) ELSE EmptyDict

\* a lookup that ignores what the dict holds
get_default(d, k, default) == default

\* d.get(k, default)
get(d, k, default) == IF k \in DOMAIN d THEN d[k] ELSE default

(***************************************************************************)
(* Handler results                                                         *)
(***************************************************************************)
\* one {expr} of a template: the expression, how it is converted to text
\* ("format" for a plain {x}, "json.dumps" for {json.dumps(x, ...)}), the
\* quoting around it in the generated source, and the value
Slot(expr, conv, ctx, val) == [expr |-> expr, conv |-> conv, ctx |-> ctx, val |-> val]

Text(template, slots) == [template |-> template, slots |-> slots]

Return(code, filename, instructions) ==
    [kind |-> "return",
     value |-> [code |-> code, filename |-> filename, instructions |-> instructions]]

Raise(exc) == [kind |-> "raise", exc |-> exc]

NoResult == [kind |-> "none"]
NoCall == [handler |-> "none", args |-> EmptyDict]

(***************************************************************************)
(* Parameter values the handlers are called with                           *)
(***************************************************************************)
STR_my_mem == <<"m","y"," ","m","e","m">>
STR_Gw_2 == <<"G","w"," ","2">>
STR_d1 == <<"d","1">>
STR_m_1 == <<"m","-","1">>
STR_m_2 == <<"m","-","2">>
STR_g_1 == <<"g","-","1">>
STR_g_2 == <<"g","-","2">>
STR_t_1 == <<"t","-","1">>
STR_t_2 == <<"t","-","2">>
STR_arn_r1 == <<"a","r","n",":","r","1">>
STR_arn_r2 == <<"a","r","n",":","r","2">>
STR_arn_f1 == <<"a","r","n",":","f","1">>
STR_arn_f2 == <<"a","r","n",":","f","2">>
STR_arn_a1 == <<"a","r","n",":","a","/","1">>
STR_arn_a2 == <<"a","r","n",":","a","/","2">>
STR_c_1 == <<"c","-","1">>
STR_c_2 == <<"c","-","2">>
STR_u_1 == <<"h","t","t","p","s",":","/","/","u","1">>
STR_u_2 == <<"h","t","t","p","s",":","/","/","u","2">>
STR_user_1 == <<"u","1">>
STR_user_2 == <<"u","2">>
STR_s_1 == <<"s","1">>
STR_s_2 == <<"s","2">>
STR_ns_1 == <<"a","p","p","/","u","1">>
STR_ns_2 == <<"a","p","p","/","u","2">>
STR_q_1 == <<"l","i","k","e","s">>
STR_q_2 == <<"f","a","c","t","s">>
STR_agent_py == <<"a","g","e","n","t",".","p","y">>
STR_main_py == <<"m","a","i","n",".","p","y">>
STR_Order_Lookup == <<"O","r","d","e","r"," ","L","o","o","k","u","p">>
STR_refund == <<"r","e","f","u","n","d">>
STR_tok_1 == <<"t","o","k","1">>
STR_tok_2 == <<"t","o","k","2">>
STR_hi == <<"h","i">>
STR_USER == <<"U","S","E","R">>
STR_ASSISTANT == <<"A","S","S","I","S","T","A","N","T">>
STR_prompt_1 == <<"b","e"," ","k","i","n","d">>
STR_prompt_2 == <<"b","e"," ","b","r","i","e","f">>
STR_quoted == <<"6","\""," ","t","v">>

Regions == {STR_us_west_2, STR_eu_west_1}
Names == {STR_my_mem, STR_Gw_2}
Descriptions == {STR_empty, STR_d1, STR_quoted}
MemoryIds == {STR_m_1, STR_m_2}
GatewayIds == {STR_g_1, STR_g_2}
TargetIds == {STR_t_1, STR_t_2}
RoleArns == {STR_arn_r1, STR_arn_r2}
LambdaArns == {STR_arn_f1, STR_arn_f2}
AgentArns == {STR_arn_a1, STR_arn_a2}
ClientIds == {STR_c_1, STR_c_2}
DiscoveryUrls == {STR_u_1, STR_u_2}
ActorIds == {STR_user_1, STR_user_2}
SessionIds == {STR_s_1, STR_s_2}
Namespaces == {STR_ns_1, STR_ns_2}
Queries == {STR_q_1, STR_q_2}
ProtocolTypes == {STR_MCP, STR_SSE, STR_mcp}
AuthorizerTypes == {STR_CUSTOM_JWT, STR_AWS_IAM}
MemoryModes == {STR_NO_MEMORY, STR_STM_ONLY}
RequirementsFiles == {STR_requirements_txt, STR_reqs_txt}
Entrypoints == {STR_agent_py, STR_main_py}
TargetNames == {STR_Order_Lookup, STR_refund}
BearerTokens == {STR_tok_1, STR_tok_2}
SystemPrompts == {STR_prompt_1, STR_prompt_2}
TopKs == {3, 5}
RelevanceScores == {2, 5}      \* tenths
Limits == {50, 10}
HoursBack == {1, 24}

\* strategy dicts: {"name": ..., "namespaces": [...]}, the name in any case,
\* a name the table does not know, or no name at all
StrategyNames ==
    {STR_summary, STR_preferences, STR_semantic, STR_Summary, STR_Preferences,
     STR_SEMANTIC, STR_custom, STR_summaries, STR_empty}

Strategies ==
    {[name |-> n, namespaces |-> <<STR_ns_1>>] : n \in StrategyNames}
        \cup {[namespaces |-> <<STR_ns_2>>]}

RECURSIVE ListsUpTo(_, _)
ListsUpTo(S, n) ==
    IF n = 0 THEN {<<>>}
    ELSE LET shorter == ListsUpTo(S, n - 1)
         IN  shorter \cup {Append(l, x) : l \in {m \in shorter : Len(m) = n - 1}, x \in S}

StrategyLists == ListsUpTo(Strategies, MaxStrategies)

ToolSchemas ==
    {<<[name |-> STR_refund, description |-> STR_d1]>>,
     <<[name |-> STR_Order_Lookup, description |-> STR_empty],
       [name |-> STR_refund, description |-> STR_d1]>>,
     <<[name |-> STR_refund, description |-> STR_quoted]>>}

\* (message, role) pairs
MessageLists ==
    {<<<<STR_hi, STR_USER>>>>,
     <<<<STR_hi, STR_USER>>, <<STR_q_1, STR_ASSISTANT>>>>}

EnvVarDicts == {EmptyDict, [MEMORY_ID |-> STR_m_1], [COGNITO_CLIENT_ID |-> STR_c_2]}

Payloads == {[prompt |-> STR_hi], [prompt |-> STR_q_1, actor_id |-> STR_user_1]}

(***************************************************************************)
(* Memory handlers                                                         *)
(***************************************************************************)
\* the loop body of handle_memory_create without the .lower()
transform_strategy_case_sensitive(strategy) ==
    LET strategy_name == get(strategy, "name", STR_empty)
    IN  IF strategy_name = STR_summary THEN [summaryMemoryStrategy |-> strategy]
        ELSE IF strategy_name = STR_preferences
             THEN [userPreferenceMemoryStrategy |-> strategy]
        ELSE IF strategy_name = STR_semantic THEN [semanticMemoryStrategy |-> strategy]
        ELSE strategy

\* the loop body of handle_memory_create: one strategy to its tagged union
transform_strategy(strategy) ==
    LET strategy_name == str_lower(get(strategy, "name", STR_empty))
    IN  IF strategy_name = STR_summary THEN [summaryMemoryStrategy |-> strategy]
        ELSE IF strategy_name = STR_preferences
             THEN [userPreferenceMemoryStrategy |-> strategy]
        ELSE IF strategy_name = STR_semantic THEN [semanticMemoryStrategy |-> strategy]
        ELSE strategy

handle_memory_create(args) ==
    IF ~({"name", "strategies"} \subseteq DOMAIN args) THEN Raise("KeyError")
    ELSE
    LET region == get(args, "region", STR_us_west_2)
        name == args["name"]
        description == get(args, "description", STR_empty)
        strategies == args["strategies"]
        transformed_strategies ==
            [i \in 1..Len(strategies) |-> transform_strategy(strategies[i])]
    IN  Return(
            Text("handle_memory_create",
                 <<Slot("transformed_strategies", "json.dumps", "bare", transformed_strategies),
                   Slot("region", "format", "sq", region),
                   Slot("name", "format", "dq", name),
                   Slot("description", "format", "dq", description),
                   Slot("name", "format", "dq", name),
                   Slot("region", "format", "dq", region)>>),
            str_replace(name, " ", "_") \o STR_create_py,
            Text("handle_memory_create.instructions",
                 <<Slot("name", "format", "sq", name)>>))

handle_memory_create_event(args) ==
    IF ~({"memory_id", "actor_id", "session_id", "messages"} \subseteq DOMAIN args)
    THEN Raise("KeyError")
    ELSE
    LET region == get(args, "region", STR_us_west_2)
        actor_id == args["actor_id"]
        session_id == args["session_id"]
        messages == args["messages"]
    IN  Return(
            Text("handle_memory_create_event",
                 <<Slot("region", "format", "sq", region),
                   Slot("messages", "json.dumps", "bare", messages),
                   Slot("actor_id", "format", "dq", actor_id),
                   Slot("session_id", "format", "dq", session_id)>>),
            STR_store_memory_event_ \o actor_id \o STR_py,
            Text("handle_memory_create_event.instructions",
                 <<Slot("actor_id", "format", "text", actor_id)>>))

handle_memory_retrieve(args) ==
    IF ~({"memory_id", "namespace", "query"} \subseteq DOMAIN args) THEN Raise("KeyError")
    ELSE
    LET region == get(args, "region", STR_us_west_2)
        namespace == args["namespace"]
        query == args["query"]
        top_k == get(args, "top_k", 3)
    IN  Return(
            Text("handle_memory_retrieve",
                 <<Slot("region", "format", "sq", region),
                   Slot("namespace", "format", "fdq", namespace),
                   Slot("query", "format", "fdq", query),
                   Slot("top_k", "format", "fdq", top_k),
                   Slot("namespace", "format", "dq", namespace),
                   Slot("query", "format", "dq", query),
                   Slot("top_k", "format", "bare", top_k),
                   Slot("namespace", "format", "fdq", namespace)>>),
            <<"r","e","t","r","i","e","v","e","_","m","e","m","o","r","i","e","s",".","p","y">>,
            Text("handle_memory_retrieve.instructions",
                 <<Slot("namespace", "format", "sq", namespace)>>))

handle_memory_delete(args) ==
    IF ~({"memory_id"} \subseteq DOMAIN args) THEN Raise("KeyError")
    ELSE
    LET region == get(args, "region", STR_us_west_2)
    IN  Return(
            Text("handle_memory_delete",
                 <<Slot("region", "format", "sq", region)>>),
            <<"d","e","l","e","t","e","_","m","e","m","o","r","y",".","p","y">>,
            Text("handle_memory_delete.instructions", <<>>))

(***************************************************************************)
(* Gateway handlers                                                        *)
(***************************************************************************)
\* handle_gateway_create without its protocol check
gateway_protocol_unchecked(protocol_type) == TRUE

\* a check that takes the protocol name in any case
gateway_protocol_any_case(protocol_type) == str_lower(protocol_type) = str_lower(STR_MCP)

\* the guard of handle_gateway_create: only MCP is supported
gateway_protocol_supported(protocol_type) == protocol_type = STR_MCP

handle_gateway_create(args) ==
    IF ~({"name", "role_arn", "cognito_client_id", "cognito_discovery_url"}
            \subseteq DOMAIN args)
    THEN Raise("KeyError")
    ELSE
    LET region == get(args, "region", STR_us_west_2)
        name == args["name"]
        protocol_type == get(args, "protocol_type", STR_MCP)
        authorizer_type == get(args, "authorizer_type", STR_CUSTOM_JWT)
        description == get(args, "description", STR_empty)
    IN  IF ~gateway_protocol_supported(protocol_type) THEN Raise("ValueError")
        ELSE Return(
            Text("handle_gateway_create",
                 <<Slot("region", "format", "sq", region),
                   Slot("name", "format", "dq", name),
                   Slot("protocol_type", "format", "dq", protocol_type),
                   Slot("authorizer_type", "format", "dq", authorizer_type),
                   Slot("description", "format", "dq", description),
                   Slot("name", "format", "dq", name),
                   Slot("region", "format", "dq", region)>>),
            str_replace(str_lower(name), " ", "_") \o STR_gateway_create_py,
            Text("handle_gateway_create.instructions",
                 <<Slot("name", "format", "sq", name)>>))

handle_gateway_add_lambda_target(args) ==
    IF ~({"target_name", "lambda_arn", "tool_schema"} \subseteq DOMAIN args)
    THEN Raise("KeyError")
    ELSE
    LET region == get(args, "region", STR_us_west_2)
        target_name == args["target_name"]
        lambda_arn == args["lambda_arn"]
        tool_schema == args["tool_schema"]
        target_description == get(args, "target_description", STR_empty)
    IN  Return(
            Text("handle_gateway_add_lambda_target",
                 <<Slot("region", "format", "sq", region),
                   Slot("lambda_arn", "format", "dq", lambda_arn),
                   Slot("tool_schema", "json.dumps", "bare", tool_schema),
                   Slot("target_name", "format", "fdq", target_name),
                   Slot("target_name", "format", "dq", target_name),
                   Slot("target_description", "format", "dq", target_description),
                   Slot("target_name", "format", "fdq", target_name)>>),
            STR_add_ \o str_replace(str_lower(target_name), " ", "_") \o STR_target_py,
            Text("handle_gateway_add_lambda_target.instructions",
                 <<Slot("target_name", "format", "sq", target_name)>>))

handle_gateway_list_targets(args) ==
    LET region == get(args, "region", STR_us_west_2)
    IN  Return(
            Text("handle_gateway_list_targets",
                 <<Slot("region", "format", "sq", region)>>),
            <<"l","i","s","t","_","g","a","t","e","w","a","y","_","t","a","r","g","e","t","s",".","p","y">>,
            Text("handle_gateway_list_targets.instructions", <<>>))

handle_gateway_delete_target(args) ==
    IF ~({"target_id"} \subseteq DOMAIN args) THEN Raise("KeyError")
    ELSE
    LET region == get(args, "region", STR_us_west_2)
        target_id == args["target_id"]
    IN  Return(
            Text("handle_gateway_delete_target",
                 <<Slot("region", "format", "sq", region),
                   Slot("target_id", "format", "fdq", target_id),
                   Slot("target_id", "format", "dq", target_id)>>),
            <<"d","e","l","e","t","e","_","g","a","t","e","w","a","y","_","t","a","r","g","e","t",".","p","y">>,
            Text("handle_gateway_delete_target.instructions",
                 <<Slot("target_id", "format", "sq", target_id)>>))

handle_gateway_delete(args) ==
    LET region == get(args, "region", STR_us_west_2)
    IN  Return(
            Text("handle_gateway_delete",
                 <<Slot("region", "format", "sq", region)>>),
            <<"d","e","l","e","t","e","_","g","a","t","e","w","a","y",".","p","y">>,
            Text("handle_gateway_delete.instructions", <<>>))

(***************************************************************************)
(* Runtime handlers                                                        *)
(***************************************************************************)
handle_runtime_configure(args) ==
    IF ~({"entrypoint", "agent_name", "execution_role", "cognito_client_id",
          "cognito_discovery_url"} \subseteq DOMAIN args)
    THEN Raise("KeyError")
    ELSE
    LET region == get(args, "region", STR_us_west_2)
        entrypoint == args["entrypoint"]
        agent_name == args["agent_name"]
        auto_create_ecr == get(args, "auto_create_ecr", TRUE)
        memory_mode == get(args, "memory_mode", STR_NO_MEMORY)
        requirements_file == get(args, "requirements_file", STR_requirements_txt)
    IN  Return(
            Text("handle_runtime_configure",
                 <<Slot("entrypoint", "format", "dq", entrypoint),
                   Slot("agent_name", "format", "dq", agent_name),
                   Slot("auto_create_ecr", "format", "bare", auto_create_ecr),
                   Slot("memory_mode", "format", "dq", memory_mode),
                   Slot("requirements_file", "format", "dq", requirements_file),
                   Slot("region", "format", "dq", region)>>),
            <<"c","o","n","f","i","g","u","r","e","_","r","u","n","t","i","m","e",".","p","y">>,
            Text("handle_runtime_configure.instructions", <<>>))

handle_runtime_launch(args) ==
    IF ~({"env_vars"} \subseteq DOMAIN args) THEN Raise("KeyError")
    ELSE
    LET region == get(args, "region", STR_us_west_2)
        env_vars == args["env_vars"]
        auto_update_on_conflict == get(args, "auto_update_on_conflict", TRUE)
        env_vars_dict == env_vars
    IN  Return(
            Text("handle_runtime_launch",
                 <<Slot("region", "format", "dq", region),
                   Slot("env_vars_dict", "json.dumps", "bare", env_vars_dict),
                   Slot("auto_update_on_conflict", "format", "bare", auto_update_on_conflict),
                   Slot("region", "format", "dq", region)>>),
            <<"l","a","u","n","c","h","_","t","o","_","r","u","n","t","i","m","e",".","p","y">>,
            Text("handle_runtime_launch.instructions", <<>>))

handle_runtime_status(args) ==
    LET region == get(args, "region", STR_us_west_2)
    IN  Return(
            Text("handle_runtime_status",
                 <<Slot("region", "format", "dq", region)>>),
            <<"c","h","e","c","k","_","r","u","n","t","i","m","e","_","s","t","a","t","u","s",".","p","y">>,
            Text("handle_runtime_status.instructions", <<>>))

handle_runtime_invoke(args) ==
    LET region == get(args, "region", STR_us_west_2)
        payload == get(args, "payload",
                       [actor_id |-> <<"u","s","e","r","_","0","0","1">>,
                        prompt |-> <<"W","h","a","t"," ","d","o"," ","y","o","u"," ",
                                     "k","n","o","w"," ","a","b","o","u","t"," ","m","e","?">>])
    IN  Return(
            Text("handle_runtime_invoke",
                 <<Slot("region", "format", "dq", region),
                   Slot("payload", "json.dumps", "bare", payload)>>),
            <<"i","n","v","o","k","e","_","a","g","e","n","t",".","p","y">>,
            Text("handle_runtime_invoke.instructions", <<>>))

handle_runtime_delete(args) ==
    LET region == get(args, "region", STR_us_west_2)
    IN  Return(
            Text("handle_runtime_delete",
                 <<Slot("region", "format", "sq", region)>>),
            <<"d","e","l","e","t","e","_","r","u","n","t","i","m","e",".","p","y">>,
            Text("handle_runtime_delete.instructions", <<>>))

(***************************************************************************)
(* Observability and identity handlers                                     *)
(***************************************************************************)
handle_observability_get_dashboard_url(args) ==
    LET region == get(args, "region", STR_us_west_2)
    IN  Return(
            Text("handle_observability_get_dashboard_url",
                 <<Slot("region", "format", "dq", region)>>),
            <<"g","e","t","_","d","a","s","h","b","o","a","r","d","_","u","r","l",".","p","y">>,
            Text("handle_observability_get_dashboard_url.instructions", <<>>))

handle_observability_get_logs_info(args) ==
    IF ~({"agent_arn"} \subseteq DOMAIN args) THEN Raise("KeyError")
    ELSE
    LET region == get(args, "region", STR_us_west_2)
    IN  Return(
            Text("handle_observability_get_logs_info",
                 <<Slot("region", "format", "fdq", region)>>),
            <<"g","e","t","_","l","o","g","s","_","i","n","f","o",".","p","y">>,
            Text("handle_observability_get_logs_info.instructions", <<>>))

handle_observability_get_recent_logs(args) ==
    IF ~({"agent_arn"} \subseteq DOMAIN args) THEN Raise("KeyError")
    ELSE
    LET region == get(args, "region", STR_us_west_2)
        limit == get(args, "limit", 50)
        hours_back == get(args, "hours_back", 1)
    IN  Return(
            Text("handle_observability_get_recent_logs",
                 <<Slot("region", "format", "sq", region),
                   Slot("hours_back", "format", "bare", hours_back),
                   Slot("limit", "format", "bare", limit),
                   Slot("hours_back", "format", "fdq", hours_back)>>),
            <<"g","e","t","_","r","e","c","e","n","t","_","l","o","g","s",".","p","y">>,
            Text("handle_observability_get_recent_logs.instructions", <<>>))

handle_create_runtime_execution_role_script(args) ==
    LET region == get(args, "region", STR_us_west_2)
    IN  Return(
            Text("handle_create_runtime_execution_role_script",
                 <<Slot("region", "format", "dq", region)>>),
            <<"c","r","e","a","t","e","_","r","u","n","t","i","m","e","_","e","x","e","c","u",
              "t","i","o","n","_","r","o","l","e",".","p","y">>,
            Text("handle_create_runtime_execution_role_script.instructions", <<>>))

(***************************************************************************)
(* Strands handlers.  handlers/strands_handlers.py is imported by          *)
(* handlers/__init__.py but is not among the sources; what is modelled is  *)
(* the uniform handler contract: the payload interpolates the parameters.  *)
(***************************************************************************)
handle_generate_strands_agent(args) ==
    IF ~({"agent_name", "system_prompt"} \subseteq DOMAIN args) THEN Raise("KeyError")
    ELSE
    Return(
        Text("handle_generate_strands_agent",
             <<Slot("agent_name", "format", "dq", args["agent_name"]),
               Slot("system_prompt", "format", "dq", args["system_prompt"]),
               Slot("region", "format", "dq", get(args, "region", STR_us_west_2))>>),
        args["agent_name"] \o STR_py,
        Text("handle_generate_strands_agent.instructions", <<>>))

handle_generate_agentcore_runtime_agent(args) ==
    IF ~({"agent_name", "system_prompt"} \subseteq DOMAIN args) THEN Raise("KeyError")
    ELSE
    Return(
        Text("handle_generate_agentcore_runtime_agent",
             <<Slot("agent_name", "format", "dq", args["agent_name"]),
               Slot("system_prompt", "format", "dq", args["system_prompt"]),
               Slot("region", "format", "dq", get(args, "region", STR_us_west_2))>>),
        args["agent_name"] \o STR_py,
        Text("handle_generate_agentcore_runtime_agent.instructions", <<>>))

\* the handler behind each tool
HandlerResult(h, args) ==
    CASE h = "handle_memory_create" -> handle_memory_create(args)
      [] h = "handle_memory_create_event" -> handle_memory_create_event(args)
      [] h = "handle_memory_retrieve" -> handle_memory_retrieve(args)
      [] h = "handle_memory_delete" -> handle_memory_delete(args)
      [] h = "handle_gateway_create" -> handle_gateway_create(args)
      [] h = "handle_gateway_add_lambda_target" -> handle_gateway_add_lambda_target(args)
      [] h = "handle_gateway_list_targets" -> handle_gateway_list_targets(args)
      [] h = "handle_gateway_delete_target" -> handle_gateway_delete_target(args)
      [] h = "handle_gateway_delete" -> handle_gateway_delete(args)
      [] h = "handle_runtime_configure" -> handle_runtime_configure(args)
      [] h = "handle_runtime_launch" -> handle_runtime_launch(args)
      [] h = "handle_runtime_status" -> handle_runtime_status(args)
      [] h = "handle_runtime_invoke" -> handle_runtime_invoke(args)
      [] h = "handle_runtime_delete" -> handle_runtime_delete(args)
      [] h = "handle_observability_get_dashboard_url" ->
             handle_observability_get_dashboard_url(args)
      [] h = "handle_observability_get_logs_info" ->
             handle_observability_get_logs_info(args)
      [] h = "handle_observability_get_recent_logs" ->
             handle_observability_get_recent_logs(args)
      [] h = "handle_create_runtime_execution_role_script" ->
             handle_create_runtime_execution_role_script(args)
      [] h = "handle_generate_strands_agent" -> handle_generate_strands_agent(args)
      [] h = "handle_generate_agentcore_runtime_agent" ->
             handle_generate_agentcore_runtime_agent(args)

(***************************************************************************)
(* The world the scripts run in: config files and AWS resources            *)
(***************************************************************************)
MSG_ResourceNotFoundException == <<"(","R","e","s","o","u","r","c","e","N","o","t","F","o","u","n","d","E","x","c","e","p","t","i","o","n",")"," ","g","o","n","e">>
MSG_not_found == <<"M","e","m","o","r","y"," ","n","o","t"," ","f","o","u","n","d">>
MSG_does_not_exist == <<"M","e","m","o","r","y"," ","d","o","e","s"," ","n","o","t"," ","e","x","i","s","t">>
MSG_AccessDeniedException == <<"(","A","c","c","e","s","s","D","e","n","i","e","d","E","x","c","e","p","t","i","o","n",")">>
MSG_ConflictException == <<"(","C","o","n","f","l","i","c","t","E","x","c","e","p","t","i","o","n",")">>
MSG_Domain_already_exists == <<"D","o","m","a","i","n"," ","a","l","r","e","a","d","y"," ","e","x","i","s","t","s">>
MSG_already_exists == <<"R","S"," ","a","l","r","e","a","d","y"," ","e","x","i","s","t","s">>
STR_Domain_already_exists == <<"D","o","m","a","i","n"," ","a","l","r","e","a","d","y"," ","e","x","i","s","t","s">>
STR_already_exists == <<"a","l","r","e","a","d","y"," ","e","x","i","s","t","s">>
STR_agent == <<"a","g","e","n","t">>
STR_secret == <<"s","3","c","r","e","t">>
STR_pool_1 == <<"p","o","o","l","-","1">>
STR_dom_1 == <<"d","o","m","-","1">>
STR_tokurl == <<"h","t","t","p","s",":","/","/","t","o","k">>
STR_rs == <<"r","e","t","u","r","n","s","-","a","g","e","n","t","-","a","p","i">>
STR_scope_read == <<"r","s","/","r","e","a","d">>
STR_scope_write == <<"r","s","/","w","r","i","t","e">>
STR_role_name == <<"R","o","l","e","-","1">>
STR_policy_name == <<"P","o","l","-","1">>
STR_arn_p1 == <<"a","r","n",":","p","1">>
STR_acct == <<"1","2","3">>
STR_lookup_order == <<"l","o","o","k","u","p","_","o","r","d","e","r">>
STR_ORD_001 == <<"O","R","D","-","0","0","1">>
STR_OrderLookupFunction == <<"O","r","d","e","r","L","o","o","k","u","p","F","u","n","c","t","i","o","n">>
STR_arn_g1 == <<"a","r","n",":","g","1">>

STR_ReturnsAgentGatewayRole == <<"R","e","t","u","r","n","s","A","g","e","n","t","G","a","t","e","w","a","y","R","o","l","e">>
STR_ReturnsAgentGatewayPolicy == <<"R","e","t","u","r","n","s","A","g","e","n","t","G","a","t","e","w","a","y","P","o","l","i","c","y">>
STR_ReturnsAgentRuntimeExecutionRole == <<"R","e","t","u","r","n","s","A","g","e","n","t","R","u","n","t","i","m","e","E","x","e","c","u","t","i","o","n","R","o","l","e">>
STR_ReturnsAgentRuntimePolicy == <<"R","e","t","u","r","n","s","A","g","e","n","t","R","u","n","t","i","m","e","P","o","l","i","c","y">>
STR_OrderLookupLambdaRole == <<"O","r","d","e","r","L","o","o","k","u","p","L","a","m","b","d","a","R","o","l","e">>
STR_OrderLookup == <<"O","r","d","e","r","L","o","o","k","u","p">>
STR_ReturnsRefundsGateway == <<"R","e","t","u","r","n","s","R","e","f","u","n","d","s","G","a","t","e","w","a","y">>
STR_arn_aws_iam == <<"a","r","n",":","a","w","s",":","i","a","m",":",":">>
STR_role_path == <<":","r","o","l","e","/">>
STR_policy_path == <<":","p","o","l","i","c","y","/">>
STR_arn_aws_lambda == <<"a","r","n",":","a","w","s",":","l","a","m","b","d","a",":">>
STR_function_path == <<":","f","u","n","c","t","i","o","n",":">>
STR_colon == <<":">>
MSG_EntityAlreadyExistsException == <<"(","E","n","t","i","t","y","A","l","r","e","a","d","y","E","x","i","s","t","s",")">>
MSG_LimitExceededException == <<"(","L","i","m","i","t","E","x","c","e","e","d","e","d",")">>
MSG_ResourceConflictException == <<"(","R","e","s","o","u","r","c","e","C","o","n","f","l","i","c","t","E","x","c","e","p","t","i","o","n",")">>
MSG_Unauthorized == <<"4","0","1">>

STR_READY == <<"R","E","A","D","Y">>
STR_CREATING == <<"C","R","E","A","T","I","N","G">>
STR_UPDATING == <<"U","P","D","A","T","I","N","G">>
STR_CREATE_FAILED == <<"C","R","E","A","T","E","_","F","A","I","L","E","D">>
STR_UPDATE_FAILED == <<"U","P","D","A","T","E","_","F","A","I","L","E","D">>
STR_DELETING == <<"D","E","L","E","T","I","N","G">>

F_memory == "memory_config.json"
F_gateway == "gateway_config.json"
F_cognito == "cognito_config.json"
F_gateway_role == "gateway_role_config.json"
F_runtime_role == "runtime_execution_role_config.json"
F_runtime == "runtime_config.json"
F_yaml == ".bedrock_agentcore.yaml"
F_lambda == "lambda_config.json"

FileNames ==
    {F_memory, F_gateway, F_cognito, F_gateway_role, F_runtime_role, F_runtime, F_yaml,
     F_lambda}

\* a file on disk: missing, not parseable, or holding a flat key/value object
Absent == [exists |-> FALSE, valid |-> FALSE, data |-> EmptyDict]
Corrupt == [exists |-> TRUE, valid |-> FALSE, data |-> EmptyDict]
File(d) == [exists |-> TRUE, valid |-> TRUE, data |-> d]

\* a memory config that saves the id under "id" only
memory_config_id_key(memory_id, name, region) ==
    [id |-> memory_id, name |-> name, region |-> region]

\* what each script writes to its config file
memory_config(memory_id, name, region) ==
    [memory_id |-> memory_id, name |-> name, region |-> region]

gateway_config(gateway_id, gateway_url, gateway_arn, name, region) ==
    [id |-> gateway_id, gateway_id |-> gateway_id, gateway_url |-> gateway_url,
     gateway_arn |-> gateway_arn, name |-> name, region |-> region]

runtime_execution_role_config(role_name, role_arn, policy_name, policy_arn, region) ==
    [role_name |-> role_name, role_arn |-> role_arn, policy_name |-> policy_name,
     policy_arn |-> policy_arn, region |-> region]

runtime_output_config(agent_arn, agent_name, region) ==
    [agent_arn |-> agent_arn, agent_name |-> agent_name, region |-> region]

cognito_config(user_pool_id, domain_prefix, client_id, client_secret, token_endpoint, discovery_url, region, resource_server_identifier) ==
    [user_pool_id |-> user_pool_id, domain_prefix |-> domain_prefix,
     client_id |-> client_id, client_secret |-> client_secret,
     token_endpoint |-> token_endpoint, discovery_url |-> discovery_url,
     region |-> region, resource_server_identifier |-> resource_server_identifier,
     scopes |-> <<STR_scope_read, STR_scope_write>>]

gateway_role_config(role_arn, role_name, policy_arn, policy_name, region, account_id) ==
    [role_arn |-> role_arn, role_name |-> role_name, policy_arn |-> policy_arn,
     policy_name |-> policy_name, region |-> region, account_id |-> account_id]

\* lambda_config.json of 10_create_lambda.py
lambda_config(function_name, function_arn, lambda_role_arn, region) ==
    [function_name |-> function_name, function_arn |-> function_arn,
     lambda_role_arn |-> lambda_role_arn, region |-> region,
     tool_schema |-> <<[name |-> STR_lookup_order]>>,
     sample_orders |-> <<STR_ORD_001>>]

\* .bedrock_agentcore.yaml, written by the toolkit's runtime.configure
bedrock_agentcore_yaml == [default_agent |-> STR_agent, agents |-> STR_agent]

\* the working directory before anything was set up
NoFiles == [f \in FileNames |-> Absent]

\* the working directory after the whole setup ran: Cognito, gateway role,
\* memory, gateway, runtime role, configure, launch
ProvisionedFiles ==
    [f \in FileNames |->
        CASE f = F_memory -> File(memory_config(STR_m_1, STR_my_mem, STR_us_west_2))
          [] f = F_gateway ->
                 File(gateway_config(STR_g_1, STR_u_1, STR_arn_g1, STR_Gw_2, STR_us_west_2))
          [] f = F_cognito ->
                 File(cognito_config(STR_pool_1, STR_dom_1, STR_c_1, STR_secret, STR_tokurl,
                                     STR_u_1, STR_us_west_2, STR_rs))
          [] f = F_gateway_role ->
                 File(gateway_role_config(STR_arn_r1, STR_role_name, STR_arn_p1,
                                          STR_policy_name, STR_us_west_2, STR_acct))
          [] f = F_runtime_role ->
                 File(runtime_execution_role_config(STR_role_name, STR_arn_r1,
                                                    STR_policy_name, STR_arn_p1, STR_us_west_2))
          [] f = F_runtime ->
                 File(runtime_output_config(STR_arn_a1, STR_agent, STR_us_west_2)
                        @@ [memory_id |-> STR_m_1, gateway_url |-> STR_u_1])
          [] f = F_yaml -> File(bedrock_agentcore_yaml)
          [] f = F_lambda ->
                 File(lambda_config(STR_OrderLookupFunction, STR_arn_f1, STR_arn_r2,
                                    STR_us_west_2))]

\* the resource config files damaged by hand: not JSON, or JSON without the keys
DamagedFiles ==
    [ProvisionedFiles EXCEPT ![F_memory] = Corrupt, ![F_gateway] = File(EmptyDict),
                             ![F_runtime] = Corrupt]

EmptiedFiles ==
    [ProvisionedFiles EXCEPT ![F_memory] = File(EmptyDict), ![F_gateway] = Corrupt,
                             ![F_runtime] = File(EmptyDict)]

\* an agent set up without a memory and without a gateway
RuntimeOnlyFiles == [ProvisionedFiles EXCEPT ![F_memory] = Absent, ![F_gateway] = Absent]

FileWorlds == {NoFiles, ProvisionedFiles, DamagedFiles, EmptiedFiles, RuntimeOnlyFiles}

\* the AWS account: the memory, the gateway with its targets, the agent runtime
GatewayRoleScript == "09_create_gateway_role.py"
RuntimeRoleScript == "16_create_runtime_role.py"
LambdaScript == "10_create_lambda.py"
GatewayScript == "11_create_gateway.py"
AddLambdaScript == "12_add_lambda_to_gateway.py"
TestMemoryScript == "05_test_memory.py"
InvokeScript == "21_invoke_agent.py"
StatusScript == "20_check_status.py"

\* the names the role scripts and the Lambda script give their resources
ROLE_NAME(script) ==
    IF script = GatewayRoleScript THEN STR_ReturnsAgentGatewayRole
    ELSE STR_ReturnsAgentRuntimeExecutionRole

POLICY_NAME(script) ==
    IF script = GatewayRoleScript THEN STR_ReturnsAgentGatewayPolicy
    ELSE STR_ReturnsAgentRuntimePolicy

FUNCTION_NAME == STR_OrderLookupFunction
LAMBDA_ROLE_NAME == STR_OrderLookupLambdaRole

Digits == <<"0","1","2","3","4","5","6","7","8","9">>

\* ROLE_NAME = f"AgentCoreRuntimeExecutionRole-{int(time.time())}": a name
\* per run, the number of the run standing for the time it started at
TimeStamped(prefix, n) == prefix \o <<"-", Digits[n + 1]>>

\* the names no run has used yet
FreshNames ==
    {TimeStamped(prefix, n) : prefix \in {STR_role_name, STR_policy_name}, n \in 0..MaxRuns}

RoleNames ==
    {ROLE_NAME(GatewayRoleScript), ROLE_NAME(RuntimeRoleScript), LAMBDA_ROLE_NAME}
        \cup {TimeStamped(STR_role_name, n) : n \in 0..MaxRuns}
PolicyNames ==
    {POLICY_NAME(GatewayRoleScript), POLICY_NAME(RuntimeRoleScript)}
        \cup {TimeStamped(STR_policy_name, n) : n \in 0..MaxRuns}

\* the IAM roles and policies and the Lambda function the setup scripts name
IamNames == RoleNames \cup PolicyNames \cup {FUNCTION_NAME}

\* the ARN AWS gives a role, a policy or a function of the account
AwsArn(name) ==
    IF name \in RoleNames THEN STR_arn_aws_iam \o STR_acct \o STR_role_path \o name
    ELSE IF name \in PolicyNames
    THEN STR_arn_aws_iam \o STR_acct \o STR_policy_path \o name
    ELSE STR_arn_aws_lambda \o STR_us_west_2 \o STR_colon \o STR_acct
             \o STR_function_path \o name

\* nothing of that set up: per name, whether it exists, how often it was
\* created, how often it was changed after its creation
NoSetup ==
    [n \in IamNames |-> [exists |-> FALSE, creates |-> 0, changes |-> 0, attached |-> FALSE]]

NoCloud ==
    [memory |-> "absent", gateway |-> "absent", runtime |-> "absent",
     targets |-> [t \in TargetIds |-> "absent"], setup |-> NoSetup]

Provisioned(targets) ==
    [memory |-> "ACTIVE", gateway |-> "READY", runtime |-> "READY", targets |-> targets,
     setup |-> [n \in IamNames |->
                  IF n \in FreshNames THEN NoSetup[n]
                  ELSE [exists |-> TRUE, creates |-> 1, changes |-> 0,
                        attached |-> n \in RoleNames]]]

CloudWorlds ==
    {NoCloud,
     Provisioned([t \in TargetIds |-> "absent"]),
     Provisioned([t \in TargetIds |-> IF t = STR_t_1 THEN "READY" ELSE "absent"]),
     Provisioned([t \in TargetIds |-> "READY"])}

\* no script process
NoRun == [script |-> "none", args |-> EmptyDict, exit |-> -1, calls |-> <<>>]

Idle ==
    [status |-> "idle",      \* idle, running or exited
     script |-> "none",      \* the template the script was generated from
     args |-> EmptyDict,     \* the arguments it was generated with
     pc |-> 0,               \* the statement it is at
     exit |-> -1,            \* its exit code
     error |-> "none",       \* the exception that ended it, if one did
     calls |-> <<>>,         \* the AWS calls it made and how they were answered
     loaded |-> {},          \* the config files it has loaded
     reads |-> {},           \* the <<file, key>> it has looked up
     todo |-> {},            \* gateway delete: the targets still to delete
     sleeps |-> 0,           \* gateway delete: the waits of the verification
     lists |-> 0,            \* gateway delete: the listings of the verification
     verified |-> "none",    \* gateway delete: what the last such listing said
     mem |-> EmptyDict,      \* the config dicts it keeps to write back, by file
     token |-> STR_empty,    \* the access_token of the token response
     bearer |-> STR_empty,   \* the bearer token it invoked the agent with
     before |-> EmptyDict,   \* the config files as they were when it started
     n |-> 0,                \* the scripts run so far
     prev |-> NoRun]         \* the script run before this one

Init ==
    /\ call = NoCall
    /\ result = NoResult
    /\ files \in FileWorlds
    /\ cloud \in CloudWorlds
    /\ run = Idle

(***************************************************************************)
(* The MCP tools (server.py): build the argument dict, call the handler,   *)
(* hand back what it returns                                               *)
(***************************************************************************)
\* a handler that deletes the resource itself instead of generating a script
world_after_live_delete(h, w) ==
    CASE h = "handle_memory_delete" ->
             [files |-> [w.files EXCEPT ![F_memory] = Absent],
              cloud |-> [w.cloud EXCEPT !.memory = "absent"]]
      [] h = "handle_gateway_delete" ->
             [files |-> [w.files EXCEPT ![F_gateway] = Absent],
              cloud |-> [w.cloud EXCEPT !.gateway = "absent"]]
      [] h = "handle_runtime_delete" ->
             [files |-> [w.files EXCEPT ![F_runtime] = Absent],
              cloud |-> [w.cloud EXCEPT !.runtime = "absent"]]
      [] OTHER -> w

\* what a handler does to the disk and the account: its body only formats a
\* string, there is no boto3 client and no open() outside the template text
world_after_handler(h, w) == w

\* a tool is called while no call is being served (the guard of each tool
\* below) and no script is being run
HandlerCall(h, args) ==
    /\ run.status = "idle"
    /\ call' = [handler |-> h, args |-> args]
    /\ result' = HandlerResult(h, args)
    /\ LET w == world_after_handler(h, [files |-> files, cloud |-> cloud])
       IN  files' = w.files /\ cloud' = w.cloud
    /\ UNCHANGED run

agentcore_create_runtime_execution_role_script ==
    /\ call.handler = "none"
    /\ \E region \in Opt(Regions) :
        HandlerCall("handle_create_runtime_execution_role_script", OptArg("region", region))

agentcore_memory_create ==
    /\ call.handler = "none"
    /\ \E name \in Names, strategies \in StrategyLists,
       description \in Opt(Descriptions), region \in Opt(Regions) :
        HandlerCall("handle_memory_create",
                    Arg("name", name) @@ Arg("strategies", strategies)
                        @@ OptArg("description", description) @@ OptArg("region", region))

agentcore_memory_create_event ==
    /\ call.handler = "none"
    /\ \E memory_id \in MemoryIds, actor_id \in ActorIds, session_id \in SessionIds,
       messages \in MessageLists, region \in Opt(Regions) :
        HandlerCall("handle_memory_create_event",
                    Arg("memory_id", memory_id) @@ Arg("actor_id", actor_id)
                        @@ Arg("session_id", session_id) @@ Arg("messages", messages)
                        @@ OptArg("region", region))

agentcore_memory_retrieve ==
    /\ call.handler = "none"
    /\ \E memory_id \in MemoryIds, namespace \in Namespaces, query \in Queries,
       top_k \in Opt(TopKs), relevance_score \in Opt(RelevanceScores),
       region \in Opt(Regions) :
        HandlerCall("handle_memory_retrieve",
                    Arg("memory_id", memory_id) @@ Arg("namespace", namespace)
                        @@ Arg("query", query) @@ OptArg("top_k", top_k)
                        @@ OptArg("relevance_score", relevance_score)
                        @@ OptArg("region", region))

agentcore_memory_delete ==
    /\ call.handler = "none"
    /\ \E memory_id \in MemoryIds, region \in Opt(Regions) :
        HandlerCall("handle_memory_delete",
                    Arg("memory_id", memory_id) @@ OptArg("region", region))

agentcore_gateway_create ==
    /\ call.handler = "none"
    /\ \E name \in Names, role_arn \in RoleArns, cognito_client_id \in ClientIds,
       cognito_discovery_url \in DiscoveryUrls, protocol_type \in Opt(ProtocolTypes),
       authorizer_type \in Opt(AuthorizerTypes), description \in Opt(Descriptions),
       region \in Opt(Regions) :
        HandlerCall("handle_gateway_create",
                    Arg("name", name) @@ Arg("role_arn", role_arn)
                        @@ Arg("cognito_client_id", cognito_client_id)
                        @@ Arg("cognito_discovery_url", cognito_discovery_url)
                        @@ OptArg("protocol_type", protocol_type)
                        @@ OptArg("authorizer_type", authorizer_type)
                        @@ OptArg("description", description)
                        @@ OptArg("region", region))

agentcore_gateway_add_lambda_target ==
    /\ call.handler = "none"
    /\ \E gateway_id \in GatewayIds, target_name \in TargetNames, lambda_arn \in LambdaArns,
       tool_schema \in ToolSchemas, target_description \in Opt(Descriptions),
       region \in Opt(Regions) :
        HandlerCall("handle_gateway_add_lambda_target",
                    Arg("gateway_id", gateway_id) @@ Arg("target_name", target_name)
                        @@ Arg("lambda_arn", lambda_arn) @@ Arg("tool_schema", tool_schema)
                        @@ OptArg("target_description", target_description)
                        @@ OptArg("region", region))

agentcore_gateway_list_targets ==
    /\ call.handler = "none"
    /\ \E gateway_id \in GatewayIds, region \in Opt(Regions) :
        HandlerCall("handle_gateway_list_targets",
                    Arg("gateway_id", gateway_id) @@ OptArg("region", region))

agentcore_gateway_delete_target ==
    /\ call.handler = "none"
    /\ \E gateway_id \in GatewayIds, target_id \in TargetIds, region \in Opt(Regions) :
        HandlerCall("handle_gateway_delete_target",
                    Arg("gateway_id", gateway_id) @@ Arg("target_id", target_id)
                        @@ OptArg("region", region))

agentcore_gateway_delete ==
    /\ call.handler = "none"
    /\ \E gateway_id \in GatewayIds, region \in Opt(Regions) :
        HandlerCall("handle_gateway_delete",
                    Arg("gateway_id", gateway_id) @@ OptArg("region", region))

agentcore_runtime_configure ==
    /\ call.handler = "none"
    /\ \E entrypoint \in Entrypoints, agent_name \in {STR_agent}, execution_role \in RoleArns,
       cognito_client_id \in ClientIds, cognito_discovery_url \in DiscoveryUrls,
       auto_create_ecr \in Opt(BOOLEAN), memory_mode \in Opt(MemoryModes),
       requirements_file \in Opt(RequirementsFiles), region \in Opt(Regions) :
        HandlerCall("handle_runtime_configure",
                    Arg("entrypoint", entrypoint) @@ Arg("agent_name", agent_name)
                        @@ Arg("execution_role", execution_role)
                        @@ Arg("cognito_client_id", cognito_client_id)
                        @@ Arg("cognito_discovery_url", cognito_discovery_url)
                        @@ OptArg("auto_create_ecr", auto_create_ecr)
                        @@ OptArg("memory_mode", memory_mode)
                        @@ OptArg("requirements_file", requirements_file)
                        @@ OptArg("region", region))

agentcore_runtime_launch ==
    /\ call.handler = "none"
    /\ \E env_vars \in EnvVarDicts, auto_update_on_conflict \in Opt(BOOLEAN),
       region \in Opt(Regions) :
        HandlerCall("handle_runtime_launch",
                    Arg("env_vars", env_vars)
                        @@ OptArg("auto_update_on_conflict", auto_update_on_conflict)
                        @@ OptArg("region", region))

agentcore_runtime_status ==
    /\ call.handler = "none"
    /\ \E region \in Opt(Regions) :
        HandlerCall("handle_runtime_status", OptArg("region", region))

agentcore_runtime_invoke ==
    /\ call.handler = "none"
    /\ \E payload \in Opt(Payloads), bearer_token \in BearerTokens, region \in Opt(Regions) :
        HandlerCall("handle_runtime_invoke",
                    OptArg("payload", payload) @@ Arg("bearer_token", bearer_token)
                        @@ OptArg("region", region))

agentcore_runtime_delete ==
    /\ call.handler = "none"
    /\ \E region \in Opt(Regions) :
        HandlerCall("handle_runtime_delete", OptArg("region", region))

agentcore_observability_get_dashboard_url ==
    /\ call.handler = "none"
    /\ \E region \in Opt(Regions) :
        HandlerCall("handle_observability_get_dashboard_url", OptArg("region", region))

agentcore_observability_get_logs_info ==
    /\ call.handler = "none"
    /\ \E agent_arn \in AgentArns, region \in Opt(Regions) :
        HandlerCall("handle_observability_get_logs_info",
                    Arg("agent_arn", agent_arn) @@ OptArg("region", region))

agentcore_observability_get_recent_logs ==
    /\ call.handler = "none"
    /\ \E agent_arn \in AgentArns, hours_back \in Opt(HoursBack), limit \in Opt(Limits),
       region \in Opt(Regions) :
        HandlerCall("handle_observability_get_recent_logs",
                    Arg("agent_arn", agent_arn) @@ OptArg("hours_back", hours_back)
                        @@ OptArg("limit", limit) @@ OptArg("region", region))

generate_strands_agent ==
    /\ call.handler = "none"
    /\ \E agent_name \in {STR_agent}, system_prompt \in SystemPrompts, region \in Opt(Regions) :
        HandlerCall("handle_generate_strands_agent",
                    Arg("agent_name", agent_name) @@ Arg("system_prompt", system_prompt)
                        @@ OptArg("region", region))

generate_agentcore_runtime_agent ==
    /\ call.handler = "none"
    /\ \E agent_name \in {STR_agent}, system_prompt \in SystemPrompts, region \in Opt(Regions) :
        HandlerCall("handle_generate_agentcore_runtime_agent",
                    Arg("agent_name", agent_name) @@ Arg("system_prompt", system_prompt)
                        @@ OptArg("region", region))

\* the payload (or the error) goes back to the client and the request is over
tool_response ==
    /\ call.handler # "none"
    /\ call' = NoCall
    /\ result' = NoResult
    /\ UNCHANGED <<files, cloud, run>>

NextHandlers ==
    \/ tool_response
    \/ agentcore_create_runtime_execution_role_script
    \/ agentcore_memory_create
    \/ agentcore_memory_create_event
    \/ agentcore_memory_retrieve
    \/ agentcore_memory_delete
    \/ agentcore_gateway_create
    \/ agentcore_gateway_add_lambda_target
    \/ agentcore_gateway_list_targets
    \/ agentcore_gateway_delete_target
    \/ agentcore_gateway_delete
    \/ agentcore_runtime_configure
    \/ agentcore_runtime_launch
    \/ agentcore_runtime_status
    \/ agentcore_runtime_invoke
    \/ agentcore_runtime_delete
    \/ agentcore_observability_get_dashboard_url
    \/ agentcore_observability_get_logs_info
    \/ agentcore_observability_get_recent_logs
    \/ generate_strands_agent
    \/ generate_agentcore_runtime_agent

\* the MCP server answering tool calls
SpecHandlers == Init /\ [][NextHandlers]_vars

(***************************************************************************)
(* Properties of the tool handlers (checked under SpecHandlers)            *)
(***************************************************************************)
\* equality of two strings up to the case of their letters
SameIgnoringCase(a, b) ==
    /\ Len(a) = Len(b)
    /\ \A k \in 1..Len(a) :
          \/ a[k] = b[k]
          \/ \E i \in DOMAIN UpperLetters :
                {a[k], b[k]} \subseteq {UpperLetters[i], LowerLetters[i]}

StrategyNameOf(s) == IF "name" \in DOMAIN s THEN s.name ELSE STR_empty

\* C1: handle_memory_create maps the strategy list to a list of the same
\* length and order; a strategy named summary / preferences / semantic in any
\* letter case is wrapped as {summaryMemoryStrategy: s} /
\* {userPreferenceMemoryStrategy: s} / {semanticMemoryStrategy: s} with s
\* unchanged, and a strategy with any other name or no name passes through
\* unchanged.
C1_StrategiesTransformed ==
    (call.handler = "handle_memory_create" /\ result.kind = "return") =>
        LET input == call.args["strategies"]
            output == result.value.code.slots[1].val
        IN  /\ result.value.code.slots[1].expr = "transformed_strategies"
            /\ Len(output) = Len(input)
            /\ \A i \in 1..Len(input) :
                  LET s == input[i]
                  IN  IF SameIgnoringCase(StrategyNameOf(s), STR_summary)
                      THEN output[i] = [summaryMemoryStrategy |-> s]
                      ELSE IF SameIgnoringCase(StrategyNameOf(s), STR_preferences)
                      THEN output[i] = [userPreferenceMemoryStrategy |-> s]
                      ELSE IF SameIgnoringCase(StrategyNameOf(s), STR_semantic)
                      THEN output[i] = [semanticMemoryStrategy |-> s]
                      ELSE output[i] = s

\* a call with an upper-case known name followed by a strategy without a name
C1_Witness ==
    /\ call.handler = "handle_memory_create"
    /\ result.kind = "return"
    /\ Len(call.args["strategies"]) = 2
    /\ StrategyNameOf(call.args["strategies"][1]) = STR_SEMANTIC
    /\ "name" \notin DOMAIN call.args["strategies"][2]
    /\ result.value.code.slots[1].val[1]
           = [semanticMemoryStrategy |-> call.args["strategies"][1]]
    /\ result.value.code.slots[1].val[2] = call.args["strategies"][2]

ReturnsPayload ==
    /\ result.kind = "return"
    /\ DOMAIN result.value = {"code", "filename", "instructions"}

ProtocolRejected ==
    /\ call.handler = "handle_gateway_create"
    /\ "protocol_type" \in DOMAIN call.args
    /\ call.args["protocol_type"] # STR_MCP

\* C8 (as amended): every tool handler called with its required parameters
\* returns a mapping with exactly the keys code, filename and instructions,
\* except handle_gateway_create, which raises ValueError exactly when a
\* protocol_type other than "MCP" is given.
C8_ReturnsPayloadUnlessProtocolRejected ==
    call.handler # "none" =>
        IF ProtocolRejected THEN result = Raise("ValueError") ELSE ReturnsPayload

\* C8 as stated: no handler call ends in an error
C8_AlwaysReturnsPayload == call.handler # "none" => ReturnsPayload

C8_Witness ==
    /\ call.handler = "handle_gateway_create"
    /\ "protocol_type" \in DOMAIN call.args
    /\ call.args["protocol_type"] = STR_MCP
    /\ "description" \in DOMAIN call.args
    /\ ReturnsPayload

\* C9: a tool handler call performs no AWS call and no file read or write:
\* the config files and the cloud resources are the same before and after
\* the call, and the payload is a function of the arguments alone.
C9_HandlersHaveNoSideEffects ==
    [][(call'.handler # "none" /\ call' # call) =>
          /\ files' = files
          /\ cloud' = cloud
          /\ run' = run
          /\ result' = HandlerResult(call'.handler, call'.args)]_vars

\* the delete handler was called and the memory and its config are still there
C9_Witness ==
    /\ call.handler = "handle_memory_delete"
    /\ result.kind = "return"
    /\ files[F_memory].exists
    /\ cloud.memory = "ACTIVE"

\* the parameter a template expression stands for
SlotParam(expr) == IF expr = "env_vars_dict" THEN "env_vars" ELSE expr

\* the generated script contains the value given for parameter p
Embedded(p) ==
    \E i \in DOMAIN result.value.code.slots :
        /\ SlotParam(result.value.code.slots[i].expr) = p
        /\ result.value.code.slots[i].val = call.args[p]

\* the parameters each template interpolates
EmbeddedParams(h) ==
    CASE h = "handle_memory_create" -> {"name", "description", "region"}
      [] h = "handle_memory_create_event" -> {"actor_id", "session_id", "messages", "region"}
      [] h = "handle_memory_retrieve" -> {"namespace", "query", "top_k", "region"}
      [] h = "handle_gateway_create" ->
             {"name", "protocol_type", "authorizer_type", "description", "region"}
      [] h = "handle_gateway_add_lambda_target" ->
             {"target_name", "lambda_arn", "tool_schema", "target_description", "region"}
      [] h = "handle_gateway_delete_target" -> {"target_id", "region"}
      [] h = "handle_runtime_configure" ->
             {"entrypoint", "agent_name", "auto_create_ecr", "memory_mode",
              "requirements_file", "region"}
      [] h = "handle_runtime_launch" -> {"env_vars", "auto_update_on_conflict", "region"}
      [] h = "handle_runtime_invoke" -> {"payload", "region"}
      [] h = "handle_observability_get_recent_logs" -> {"hours_back", "limit", "region"}
      [] OTHER -> {"region"}

SourceHandlers ==
    {"handle_memory_create", "handle_memory_create_event", "handle_memory_retrieve",
     "handle_memory_delete", "handle_gateway_create", "handle_gateway_add_lambda_target",
     "handle_gateway_list_targets", "handle_gateway_delete_target", "handle_gateway_delete",
     "handle_runtime_configure", "handle_runtime_launch", "handle_runtime_status",
     "handle_runtime_invoke", "handle_runtime_delete",
     "handle_observability_get_dashboard_url", "handle_observability_get_logs_info",
     "handle_observability_get_recent_logs",
     "handle_create_runtime_execution_role_script"}

Ok(c) == [kind |-> "ok", msg |-> STR_empty, cloud |-> c]
NotFound(msg, c) == [kind |-> "not_found", msg |-> msg, cloud |-> c]
AlreadyExists(msg, c) == [kind |-> "already_exists", msg |-> msg, cloud |-> c]
Other(msg, c) == [kind |-> "other", msg |-> msg, cloud |-> c]
\* IAM's LimitExceededException: a quota of the account is used up
LimitExceeded(msg, c) == [kind |-> "limit_exceeded", msg |-> msg, cloud |-> c]

\* status_response.endpoint["status"]: the values the scripts name and two
\* they do not
EndpointStatuses ==
    {STR_READY, STR_CREATING, STR_UPDATING, STR_CREATE_FAILED, STR_UPDATE_FAILED,
     STR_DELETING, STR_empty}

\* the answer of runtime.status(): the text is the endpoint status
Status(status, c) == [kind |-> "ok", msg |-> status, cloud |-> c]

\* the targets a listing shows: every target not yet gone
ListedTargets(c) == {t \in TargetIds : c.targets[t] # "absent"}

\* target is the targetId of the call, for the calls that take one
ApiOutcomes(api, target, c) ==
    CASE api = "delete_memory" ->
             IF c.memory = "ACTIVE"
             THEN {Ok([c EXCEPT !.memory = "absent"]), Other(MSG_AccessDeniedException, c)}
             ELSE {NotFound(m, c) : m \in {MSG_ResourceNotFoundException, MSG_not_found,
                                          MSG_does_not_exist}}
                      \cup {Other(MSG_AccessDeniedException, c)}
      [] api \in {"create_event", "retrieve_memories"} ->
             IF c.memory = "ACTIVE"
             THEN {Ok(c), Other(MSG_AccessDeniedException, c)}
             ELSE {NotFound(MSG_ResourceNotFoundException, c),
                   Other(MSG_AccessDeniedException, c)}
      [] api = "get_or_create_memory" ->
             {Ok([c EXCEPT !.memory = "ACTIVE"]), Other(MSG_AccessDeniedException, c)}
      [] api = "create_gateway" ->
             IF c.gateway = "absent"
             THEN {Ok([c EXCEPT !.gateway = "READY"]), Other(MSG_AccessDeniedException, c)}
             ELSE {AlreadyExists(MSG_ConflictException, c),
                   Other(MSG_AccessDeniedException, c)}
      [] api = "create_gateway_target" ->
             \* the names of the targets are not kept: a target that is there
             \* may or may not be one of the name asked for
             IF c.gateway = "absent"
             THEN {NotFound(MSG_ResourceNotFoundException, c),
                   Other(MSG_AccessDeniedException, c)}
             ELSE {Ok([c EXCEPT !.targets[t] = "READY"]) :
                       t \in {u \in TargetIds : c.targets[u] = "absent"}}
                      \cup {AlreadyExists(MSG_ConflictException, c) :
                                t \in {u \in TargetIds : c.targets[u] # "absent"}}
                      \cup {Other(MSG_AccessDeniedException, c)}
      [] api = "list_gateway_targets" ->
             IF c.gateway = "absent"
             THEN {NotFound(MSG_ResourceNotFoundException, c),
                   Other(MSG_AccessDeniedException, c)}
             ELSE {Ok(c), Other(MSG_AccessDeniedException, c)}
      [] api = "delete_gateway_target" ->
             IF c.gateway = "absent" \/ target \notin TargetIds
             THEN {NotFound(MSG_ResourceNotFoundException, c),
                   Other(MSG_AccessDeniedException, c)}
             ELSE IF c.targets[target] = "absent"
             THEN {NotFound(MSG_ResourceNotFoundException, c),
                   Other(MSG_AccessDeniedException, c)}
             ELSE IF c.targets[target] = "READY"
             THEN {Ok([c EXCEPT !.targets[target] = "DELETING"]),
                   Other(MSG_AccessDeniedException, c)}
             ELSE {Other(MSG_ConflictException, c), Other(MSG_AccessDeniedException, c)}
      [] api = "delete_gateway" ->
             IF c.gateway = "absent"
             THEN {NotFound(MSG_ResourceNotFoundException, c),
                   Other(MSG_AccessDeniedException, c)}
             ELSE IF ListedTargets(c) # {}
             THEN {Other(MSG_ConflictException, c), Other(MSG_AccessDeniedException, c)}
             ELSE {Ok([c EXCEPT !.gateway = "absent"]), Other(MSG_AccessDeniedException, c)}
      [] api = "launch" ->
             {Ok([c EXCEPT !.runtime = "READY"]), Other(MSG_AccessDeniedException, c)}
      [] api = "status" ->
             IF c.runtime = "READY"
             THEN {Status(s, c) : s \in EndpointStatuses}
                      \cup {Other(MSG_AccessDeniedException, c)}
             ELSE {NotFound(MSG_ResourceNotFoundException, c),
                   Other(MSG_AccessDeniedException, c)}
      [] api = "invoke" ->
             IF c.runtime = "READY"
             THEN {Ok(c), Other(MSG_AccessDeniedException, c)}
             ELSE {NotFound(MSG_ResourceNotFoundException, c),
                   Other(MSG_AccessDeniedException, c)}
      [] api = "delete_agent_runtime" ->
             IF c.runtime = "READY"
             THEN {Ok([c EXCEPT !.runtime = "absent"]), Other(MSG_AccessDeniedException, c)}
             ELSE {NotFound(MSG_ResourceNotFoundException, c),
                   Other(MSG_AccessDeniedException, c)}
      [] api = "create_user_pool_domain" ->
             {Ok(c), AlreadyExists(MSG_Domain_already_exists, c),
              Other(MSG_AccessDeniedException, c)}
      [] api = "create_resource_server" ->
             {Ok(c), AlreadyExists(MSG_already_exists, c),
              Other(MSG_AccessDeniedException, c)}
      [] api = "attach_role_policy" ->
             {Ok(c), LimitExceeded(MSG_LimitExceededException, c),
              Other(MSG_AccessDeniedException, c)}
      [] api = "add_permission" ->
             {Ok(c), AlreadyExists(MSG_ResourceConflictException, c),
              Other(MSG_AccessDeniedException, c)}
      [] OTHER -> {Ok(c), Other(MSG_AccessDeniedException, c)}

\* how a call that names a role, a policy or a function can be answered
IamOutcomes(api, name, c) ==
    CASE api \in {"create_role", "create_policy", "create_function"} ->
             IF c.setup[name].exists
             THEN {AlreadyExists(MSG_EntityAlreadyExistsException, c),
                   Other(MSG_AccessDeniedException, c)}
             ELSE {Ok([c EXCEPT !.setup[name].exists = TRUE, !.setup[name].creates = @ + 1]),
                   Other(MSG_AccessDeniedException, c)}
      [] api = "attach_role_policy" ->
             {Ok([c EXCEPT !.setup[name].attached = TRUE]),
              LimitExceeded(MSG_LimitExceededException, c),
              Other(MSG_AccessDeniedException, c)}
      [] api = "update_function_code" ->
             IF c.setup[name].exists
             THEN {Ok([c EXCEPT !.setup[name].changes = @ + 1]),
                   Other(MSG_AccessDeniedException, c)}
             ELSE {NotFound(MSG_ResourceNotFoundException, c),
                   Other(MSG_AccessDeniedException, c)}
      [] OTHER ->
             IF c.setup[name].exists
             THEN {Ok(c), Other(MSG_AccessDeniedException, c)}
             ELSE {NotFound(MSG_ResourceNotFoundException, c),
                   Other(MSG_AccessDeniedException, c)}

\* base64.b64encode(..).decode(): told apart from the text it encodes, and
\* decodable to it
b64encode(text) == [b64 |-> text]
b64decode(encoded) == encoded.b64

\* 'Authorization': f'Basic {encoded_credentials}' with
\* credentials = f"{client_id}:{client_secret}"
basic_auth(client_id, client_secret) ==
    [scheme |-> "Basic", credentials |-> b64encode(client_id \o STR_colon \o client_secret)]

\* the access token Cognito issues
access_token == STR_tok_2

\* the token endpoint: 200 only for the credentials of the app client
TokenOutcomes(authorization, c) ==
    IF /\ authorization.scheme = "Basic"
       /\ b64decode(authorization.credentials) = STR_c_1 \o STR_colon \o STR_secret
    THEN {Ok(c), Other(MSG_Unauthorized, c)}
    ELSE {Other(MSG_Unauthorized, c)}

\* the tests without the .lower()
IsNotFoundMessage_unlowered(test, msg) ==
    CASE test = "not_found_3" ->
             \/ str_in(STR_not_found, msg)
             \/ str_in(STR_does_not_exist, msg)
             \/ str_in(STR_resourcenotfound, msg)
      [] test = "not_found_2" ->
             \/ str_in(STR_resourcenotfound, msg)
             \/ str_in(STR_not_found, msg)
      [] test = "not_found_cs" ->
             \/ str_in(STR_ResourceNotFound, msg)
             \/ str_in(STR_not_found, msg)
      [] OTHER -> FALSE

\* the tests the scripts apply to the text of an exception
IsNotFoundMessage(test, msg) ==
    CASE test = "not_found_3" ->
             \/ str_in(STR_not_found, str_lower(msg))
             \/ str_in(STR_does_not_exist, str_lower(msg))
             \/ str_in(STR_resourcenotfound, str_lower(msg))
      [] test = "not_found_2" ->
             \/ str_in(STR_resourcenotfound, str_lower(msg))
             \/ str_in(STR_not_found, str_lower(msg))
      [] test = "not_found_cs" ->
             \/ str_in(STR_ResourceNotFound, msg)
             \/ str_in(STR_not_found, str_lower(msg))
      [] OTHER -> FALSE

(***************************************************************************)
(* The scripts, statement by statement.  Only the statements that touch    *)
(* the disk, the account or the exit code are kept; onerr says what the    *)
(* script does when the statement fails: "raise" (no handler: traceback,   *)
(* exit code 1), "exit0" / "exit1" (an except or else branch that exits),  *)
(* "ignore", or a test on the text of the exception.                       *)
(***************************************************************************)
Instr(op, file, key, api, onerr) ==
    [op |-> op, file |-> file, key |-> key, api |-> api, onerr |-> onerr]

\* a script that opens the file without looking whether it is there
os_path_unchecked(file, onerr) == Instr("load", file, "", "", "raise")

\* if not os.path.exists(file): exit(code)
os_path_exists(file, onerr) == Instr("exists", file, "", "", onerr)
\* with open(file) as f: cfg = json.load(f)
json_load(file, onerr) == Instr("load", file, "", "", onerr)
\* if os.path.exists(file): with open(file) as f: config_files[..] = json.load(f)
json_load_if_exists(file) == Instr("load_if_exists", file, "", "", "raise")
\* cfg[key]; cfg.get(key, default) is onerr "default"
read_key(file, key, onerr) == Instr("key", file, key, "", onerr)
\* if .. in config_files: config_files[..][key]
read_key_if_loaded(file, key) == Instr("key_if_loaded", file, key, "", "raise")
\* a call to AWS (boto3 or the starter toolkit)
aws_call(api, onerr) == Instr("call", "", "", api, onerr)
\* with open(file, 'w') as f: json.dump(config, f)
json_dump(file) == Instr("write", file, "", "", "raise")

\* with open(file) as f: cfg = json.load(f), where cfg is written back later
json_load_kept(file, onerr) == Instr("load", file, "keep", "", onerr)
\* try: var = create(name)[..], inside a try whose except clause is onerr
aws_create(api, name, var, onerr) == Instr("create", var, name, api, onerr)
\* a call of iam_client that names a role or a policy
iam_call(api, name, onerr) == Instr("iam", "", name, api, onerr)
\* iam_client.attach_role_policy(RoleName=name, PolicyArn=...)
aws_attach(name, onerr) == iam_call("attach_role_policy", name, onerr)
\* the last line of a try body: the except clause is passed over
end_try == Instr("end_try", "", "", "", "")
\* except <already exists>: var = get(name)[..]
aws_lookup(api, name, var) == Instr("lookup", var, name, api, "raise")
\* except <already exists>: var = f"arn:aws:iam::{account_id}:policy/{name}"
format_arn(name, var) == Instr("format", var, name, "", "")

CognitoScript == "08_create_cognito.py"

\* the standalone scripts
SetupScripts ==
    {CognitoScript, GatewayRoleScript, RuntimeRoleScript, LambdaScript, GatewayScript,
     AddLambdaScript, TestMemoryScript, InvokeScript, StatusScript}

\* 09_create_gateway_role.py and 16_create_runtime_role.py
RoleProgram(script, file) ==
    <<aws_call("get_caller_identity", "raise"),
      aws_create("create_role", ROLE_NAME(script), "role_arn", "lookup"),
      end_try,
      aws_lookup("get_role", ROLE_NAME(script), "role_arn"),
      aws_create("create_policy", POLICY_NAME(script), "policy_arn", "lookup"),
      end_try,
      format_arn(POLICY_NAME(script), "policy_arn"),
      aws_attach(ROLE_NAME(script), "limit_exceeded"),
      json_dump(file)>>

Program(script) ==
    CASE script = "handle_memory_create" ->
             <<aws_call("get_or_create_memory", "raise"), json_dump(F_memory)>>
      [] script = "handle_memory_create_event" ->
             <<json_load(F_memory, "raise"), read_key(F_memory, "memory_id", "raise"),
               Instr("normalize", "", "", "", "raise"),
               aws_call("create_event", "raise")>>
      [] script = "handle_memory_retrieve" ->
             <<json_load(F_memory, "raise"), read_key(F_memory, "memory_id", "raise"),
               aws_call("retrieve_memories", "exit1")>>
      [] script = "handle_memory_delete" ->
             <<os_path_exists(F_memory, "exit0"), json_load(F_memory, "exit0"),
               read_key(F_memory, "memory_id", "exit0"),
               aws_call("delete_memory", "not_found_3")>>
      [] script = "handle_gateway_create" ->
             <<json_load(F_cognito, "raise"), json_load(F_gateway_role, "raise"),
               read_key(F_cognito, "client_id", "raise"),
               read_key(F_cognito, "discovery_url", "raise"),
               read_key(F_gateway_role, "role_arn", "raise"),
               aws_call("create_gateway", "raise"), json_dump(F_gateway)>>
      [] script = "handle_gateway_add_lambda_target" ->
             <<json_load(F_gateway, "raise"), read_key(F_gateway, "gateway_id", "raise"),
               aws_call("create_gateway_target", "raise")>>
      [] script = "handle_gateway_list_targets" ->
             <<json_load(F_gateway, "raise"), read_key(F_gateway, "gateway_id", "raise"),
               aws_call("list_gateway_targets", "raise")>>
      [] script = "handle_gateway_delete_target" ->
             <<os_path_exists(F_gateway, "exit0"), json_load(F_gateway, "exit0"),
               read_key(F_gateway, "gateway_id", "exit1"),
               aws_call("delete_gateway_target", "not_found_2")>>
      [] script = "handle_gateway_delete" ->
             <<os_path_exists(F_gateway, "exit0"), json_load(F_gateway, "exit0"),
               read_key(F_gateway, "gateway_id", "raise"),
               Instr("list_targets", "", "", "list_gateway_targets", "not_found_cs"),
               Instr("delete_targets", "", "", "delete_gateway_target", "not_found_cs"),
               Instr("verify_targets", "", "", "list_gateway_targets", "not_found_cs"),
               Instr("sleep", "", "", "", ""),
               Instr("recheck_targets", "", "", "list_gateway_targets", "not_found_cs"),
               aws_call("delete_gateway", "not_found_2")>>
      [] script = "handle_runtime_configure" ->
             <<json_load(F_runtime_role, "raise"), json_load(F_cognito, "raise"),
               read_key(F_cognito, "client_id", "raise"),
               read_key(F_cognito, "discovery_url", "raise"),
               read_key(F_runtime_role, "role_arn", "raise"),
               aws_call("configure", "raise")>>
      [] script = "handle_runtime_launch" ->
             <<json_load_if_exists(F_memory), json_load_if_exists(F_gateway),
               os_path_exists(F_cognito, "exit1"), json_load(F_cognito, "raise"),
               os_path_exists(F_runtime_role, "exit1"), json_load(F_runtime_role, "raise"),
               os_path_exists(F_yaml, "exit1"), json_load(F_yaml, "raise"),
               read_key(F_yaml, "default_agent", "default"),
               read_key(F_yaml, "agents", "default"),
               read_key(F_cognito, "client_id", "raise"),
               read_key(F_cognito, "discovery_url", "raise"),
               read_key(F_runtime_role, "role_arn", "raise"),
               aws_call("configure", "raise"),
               read_key_if_loaded(F_memory, "memory_id"),
               read_key_if_loaded(F_gateway, "gateway_url"),
               read_key(F_cognito, "client_id", "raise"),
               read_key(F_cognito, "client_secret", "raise"),
               read_key(F_cognito, "discovery_url", "raise"),
               read_key(F_cognito, "scopes", "default"),
               aws_call("launch", "raise"),
               read_key_if_loaded(F_memory, "memory_id"),
               read_key_if_loaded(F_gateway, "gateway_url"),
               json_dump(F_runtime)>>
      [] script \in {"handle_runtime_status", StatusScript} ->
             <<os_path_exists(F_runtime, "exit1"),
               json_load(F_runtime_role, "raise"), json_load(F_cognito, "raise"),
               os_path_exists(F_yaml, "exit1"), json_load(F_yaml, "raise"),
               read_key(F_yaml, "default_agent", "default"),
               read_key(F_yaml, "agents", "default"),
               read_key(F_cognito, "client_id", "raise"),
               read_key(F_cognito, "discovery_url", "raise"),
               read_key(F_runtime_role, "role_arn", "raise"),
               aws_call("configure", "raise"), aws_call("status", "raise")>>
      [] script = "handle_runtime_invoke" ->
             <<os_path_exists(F_runtime, "exit1"),
               json_load(F_cognito, "raise"), json_load(F_runtime_role, "raise"),
               os_path_exists(F_yaml, "exit1"), json_load(F_yaml, "raise"),
               read_key(F_yaml, "default_agent", "default"),
               read_key(F_yaml, "agents", "default"),
               read_key(F_cognito, "domain", "raise"),
               read_key(F_cognito, "region", "raise"),
               read_key(F_cognito, "client_id", "raise"),
               read_key(F_cognito, "client_secret", "raise"),
               read_key(F_cognito, "scopes", "default"),
               aws_call("oauth2_token", "exit1"),
               read_key(F_cognito, "client_id", "raise"),
               read_key(F_cognito, "discovery_url", "raise"),
               read_key(F_runtime_role, "role_arn", "raise"),
               aws_call("configure", "raise"), aws_call("invoke", "exit1")>>
      [] script = "handle_runtime_delete" ->
             <<os_path_exists(F_runtime, "exit0"), json_load(F_runtime, "exit0"),
               read_key(F_runtime, "agent_arn", "falsy_exit0"),
               aws_call("delete_agent_runtime", "not_found_2")>>
      [] script = "handle_observability_get_dashboard_url" -> <<>>
      [] script = "handle_observability_get_logs_info" ->
             <<json_load(F_runtime, "raise"), read_key(F_runtime, "agent_arn", "raise")>>
      [] script = "handle_observability_get_recent_logs" ->
             <<json_load(F_runtime, "raise"), read_key(F_runtime, "agent_arn", "raise"),
               aws_call("filter_log_events", "ignore")>>
      [] script = "handle_create_runtime_execution_role_script" ->
             <<aws_call("get_caller_identity", "raise"),
               iam_call("create_role", STR_role_name, "exit1"),
               iam_call("create_policy", STR_policy_name, "cleanup_role"),
               iam_call("attach_role_policy", STR_role_name, "cleanup_policy_role"),
               aws_call("role_exists_waiter", "ignore"),
               json_dump(F_runtime_role)>>
      [] script = GatewayRoleScript -> RoleProgram(script, F_gateway_role)
      [] script = RuntimeRoleScript -> RoleProgram(script, F_runtime_role)
      [] script = LambdaScript ->
             <<aws_call("get_caller_identity", "raise"),
               aws_create("create_role", LAMBDA_ROLE_NAME, "lambda_role_arn", "lookup"),
               aws_attach(LAMBDA_ROLE_NAME, "raise"),
               end_try,
               aws_lookup("get_role", LAMBDA_ROLE_NAME, "lambda_role_arn"),
               aws_create("create_function", FUNCTION_NAME, "function_arn", "lookup"),
               end_try,
               aws_lookup("update_function_code", FUNCTION_NAME, ""),
               aws_lookup("get_function", FUNCTION_NAME, "function_arn"),
               json_load(F_gateway_role, "skip_block"),
               read_key(F_gateway_role, "role_arn", "raise"),
               aws_call("add_permission", "conflict_ok"),
               json_dump(F_lambda)>>
      [] script = GatewayScript ->
             <<json_load(F_cognito, "exit1"),
               read_key(F_cognito, "client_id", "raise"),
               read_key(F_cognito, "discovery_url", "raise"),
               json_load(F_gateway_role, "exit1"),
               read_key(F_gateway_role, "role_arn", "raise"),
               aws_call("create_gateway", "exit1"),
               read_key(F_cognito, "client_id", "raise"),
               read_key(F_cognito, "client_secret", "raise"),
               read_key(F_cognito, "token_endpoint", "raise"),
               json_dump(F_gateway)>>
      [] script = AddLambdaScript ->
             <<json_load_kept(F_gateway, "exit1"),
               read_key(F_gateway, "gateway_id", "raise"),
               json_load(F_lambda, "exit1"),
               read_key(F_lambda, "function_arn", "raise"),
               read_key(F_lambda, "tool_schema", "raise"),
               aws_call("create_gateway_target", "exit1"),
               json_dump(F_gateway)>>
      [] script = TestMemoryScript ->
             <<json_load(F_memory, "raise"), read_key(F_memory, "memory_id", "raise"),
               aws_call("retrieve_memories", "ignore"),
               aws_call("retrieve_memories", "ignore"),
               aws_call("retrieve_memories", "ignore"),
               aws_call("retrieve_memories", "ignore")>>
      [] script = InvokeScript ->
             <<json_load(F_cognito, "raise"), json_load(F_runtime_role, "raise"),
               read_key(F_cognito, "client_id", "raise"),
               read_key(F_cognito, "client_secret", "raise"),
               read_key(F_cognito, "token_endpoint", "raise"),
               read_key(F_cognito, "scopes", "raise"),
               aws_call("oauth2_token", "exit1"),
               read_key(F_cognito, "client_id", "raise"),
               read_key(F_cognito, "discovery_url", "raise"),
               read_key(F_runtime_role, "role_arn", "raise"),
               aws_call("configure", "raise"), aws_call("invoke", "exit1")>>
      [] script = CognitoScript ->
             <<aws_call("create_user_pool", "exit1"),
               aws_call("create_user_pool_domain", "domain_already_exists"),
               aws_call("create_resource_server", "already_exists"),
               aws_call("create_user_pool_client", "exit1"),
               aws_call("describe_user_pool_client", "exit1"),
               json_dump(F_cognito)>>

(***************************************************************************)
(* Running a script                                                        *)
(***************************************************************************)
\* the environment variables of the launch script
STR_MEMORY_ID == <<"M","E","M","O","R","Y","_","I","D">>
STR_GATEWAY_URL == <<"G","A","T","E","W","A","Y","_","U","R","L">>
STR_KNOWLEDGE_BASE_ID == <<"K","N","O","W","L","E","D","G","E","_","B","A","S","E","_","I","D">>
STR_COGNITO_CLIENT_ID == <<"C","O","G","N","I","T","O","_","C","L","I","E","N","T","_","I","D">>
STR_COGNITO_CLIENT_SECRET == <<"C","O","G","N","I","T","O","_","C","L","I","E","N","T","_","S","E","C","R","E","T">>
STR_COGNITO_DISCOVERY_URL == <<"C","O","G","N","I","T","O","_","D","I","S","C","O","V","E","R","Y","_","U","R","L">>
STR_OAUTH_SCOPES == <<"O","A","U","T","H","_","S","C","O","P","E","S">>
STR_DB_PASSWORD == <<"D","B","_","P","A","S","S","W","O","R","D">>
STR_SECRET == <<"S","E","C","R","E","T">>
STR_PASSWORD == <<"P","A","S","S","W","O","R","D">>
STR_stars == <<"*","*","*">>
STR_space == <<" ">>
STR_kb_1 == <<"k","b","-","1">>
STR_hunter2 == <<"h","u","n","t","e","r","2">>
STR_gateway_read == <<"a","g","e","n","t","c","o","r","e","-","g","a","t","e","w","a","y","/","r","e","a","d">>
STR_gateway_write == <<"a","g","e","n","t","c","o","r","e","-","g","a","t","e","w","a","y","/","w","r","i","t","e">>

\* sep.join(list)
RECURSIVE str_join(_, _)
str_join(sep, list) ==
    IF list = <<>> THEN <<>>
    ELSE IF Len(list) = 1 THEN list[1]
    ELSE list[1] \o sep \o str_join(sep, Tail(list))

\* the env_vars dicts the tool is called with
CallerEnvVars ==
    {EmptyDict,
     (STR_MEMORY_ID :> STR_m_2) @@ (STR_GATEWAY_URL :> STR_u_2)
         @@ (STR_KNOWLEDGE_BASE_ID :> STR_kb_1),
     (STR_COGNITO_CLIENT_SECRET :> STR_c_2) @@ (STR_DB_PASSWORD :> STR_hunter2)}

\* the arguments the scripts that are run were generated with
ScriptArgs(h) ==
    CASE h = "handle_memory_create" ->
             {[name |-> STR_my_mem, strategies |-> <<[name |-> STR_summary]>>]}
      [] h = "handle_memory_create_event" ->
             {[memory_id |-> STR_m_1, actor_id |-> STR_user_1, session_id |-> STR_s_1,
               messages |-> messages] : messages \in {<<>>, <<<<STR_hi, STR_USER>>>>}}
      [] h = "handle_memory_retrieve" ->
             {[memory_id |-> STR_m_1, namespace |-> STR_ns_1, query |-> STR_q_1]}
      [] h = "handle_memory_delete" -> {[memory_id |-> STR_m_1]}
      [] h = "handle_gateway_create" ->
             {[name |-> STR_Gw_2, role_arn |-> STR_arn_r1, cognito_client_id |-> STR_c_1,
               cognito_discovery_url |-> STR_u_1]}
      [] h = "handle_gateway_add_lambda_target" ->
             {[gateway_id |-> STR_g_1, target_name |-> STR_refund, lambda_arn |-> STR_arn_f1,
               tool_schema |-> <<[name |-> STR_refund, description |-> STR_d1]>>]}
      [] h = "handle_gateway_delete_target" ->
             {[gateway_id |-> STR_g_1, target_id |-> t] : t \in TargetIds}
      [] h \in {"handle_gateway_list_targets", "handle_gateway_delete"} ->
             {[gateway_id |-> STR_g_1]}
      [] h = "handle_runtime_configure" ->
             {[entrypoint |-> STR_agent_py, agent_name |-> STR_agent,
               execution_role |-> STR_arn_r1, cognito_client_id |-> STR_c_1,
               cognito_discovery_url |-> STR_u_1]}
      [] h = "handle_runtime_launch" -> {[env_vars |-> e] : e \in CallerEnvVars}
      [] h = "handle_runtime_invoke" ->
             {[payload |-> [prompt |-> STR_hi], bearer_token |-> STR_tok_1]}
      [] h \in {"handle_observability_get_logs_info",
                "handle_observability_get_recent_logs"} -> {[agent_arn |-> STR_arn_a1]}
      [] OTHER -> {EmptyDict}

Exit(r, code, error) == [r EXCEPT !.status = "exited", !.exit = code, !.error = error]
Advance(r) == [r EXCEPT !.pc = @ + 1]
Goto(r, op) ==
    [r EXCEPT !.pc = CHOOSE i \in DOMAIN Program(r.script) : Program(r.script)[i].op = op]

Running == run.status = "running" /\ run.pc \in DOMAIN Program(run.script)
Cur == Program(run.script)[run.pc]

\* the statement after the next one of the kind
After(r, op) ==
    LET P == Program(r.script)
        next == {i \in DOMAIN P : i >= r.pc /\ P[i].op = op}
    IN  [r EXCEPT !.pc = 1 + CHOOSE i \in next : \A j \in next : i <= j]

\* the run got past its json.dump
Wrote(r) ==
    \E i \in DOMAIN Program(r.script) : Program(r.script)[i].op = "write" /\ r.pc > i

\* var = value
Bind(r, var, value) ==
    IF var = "" THEN r ELSE [r EXCEPT !.mem = (var :> value) @@ @]

\* what the failure branch of a statement does
Fail(r, onerr, error) ==
    CASE onerr = "exit0" -> Exit(r, 0, "none")
      [] onerr = "falsy_exit0" -> Exit(r, 0, "none")
      [] onerr = "exit1" -> Exit(r, 1, "none")
      [] onerr = "default" -> Advance(r)
      [] onerr = "ignore" -> Advance(r)
      [] onerr = "skip_block" ->
             IF error = "FileNotFoundError" THEN After(r, "call") ELSE Exit(r, 1, error)
      [] OTHER -> Exit(r, 1, error)

Start(script, args) ==
    [Idle EXCEPT !.status = "running", !.script = script, !.args = args, !.pc = 1,
                 !.n = run.n + 1,
                 !.prev = [script |-> run.script, args |-> run.args, exit |-> run.exit,
                           calls |-> run.calls]]

\* python <the script a handler generated>
run_script ==
    /\ run.status \in {"idle", "exited"}
    /\ run.n < MaxRuns
    /\ \E h \in SourceHandlers :
         \E args \in ScriptArgs(h) :
            LET r == HandlerResult(h, args)
            IN  /\ r.kind = "return"
                /\ run' = Start(r.value.code.template, args)
    /\ UNCHANGED <<call, result, files, cloud>>

\* python 08_create_cognito.py
run_cognito_script ==
    /\ run.status \in {"idle", "exited"}
    /\ run.n < MaxRuns
    /\ run' = Start(CognitoScript, EmptyDict)
    /\ UNCHANGED <<call, result, files, cloud>>

step_exists ==
    /\ Running
    /\ Cur.op = "exists"
    /\ run' = IF files[Cur.file].exists THEN Advance(run)
              ELSE Fail(run, Cur.onerr, "none")
    /\ UNCHANGED <<call, result, files, cloud>>

step_load ==
    /\ Running
    /\ Cur.op \in {"load", "load_if_exists"}
    /\ run' = IF Cur.op = "load_if_exists" /\ ~files[Cur.file].exists THEN Advance(run)
              ELSE IF ~files[Cur.file].exists
              THEN Fail(run, Cur.onerr, "FileNotFoundError")
              ELSE IF ~files[Cur.file].valid
              THEN Fail(run, Cur.onerr, "JSONDecodeError")
              ELSE Advance(Bind([run EXCEPT !.loaded = @ \cup {Cur.file}],
                                IF Cur.key = "keep" THEN Cur.file ELSE "",
                                files[Cur.file].data))
    /\ UNCHANGED <<call, result, files, cloud>>

step_key ==
    /\ Running
    /\ Cur.op \in {"key", "key_if_loaded"}
    /\ run' = IF Cur.op = "key_if_loaded" /\ Cur.file \notin run.loaded THEN Advance(run)
              ELSE LET r == [run EXCEPT !.reads = @ \cup {<<Cur.file, Cur.key>>}]
                   IN  IF Cur.key \in DOMAIN files[Cur.file].data THEN Advance(r)
                       ELSE Fail(r, Cur.onerr, "KeyError")
    /\ UNCHANGED <<call, result, files, cloud>>

\* the except branch of an AWS call
CallFailed(r, onerr, o) ==
    CASE onerr \in {"not_found_2", "not_found_3"} ->
             IF IsNotFoundMessage(onerr, o.msg) THEN Advance(r) ELSE Exit(r, 1, "none")
      [] onerr = "domain_already_exists" ->
             IF o.kind = "already_exists" /\ str_in(STR_Domain_already_exists, o.msg)
             THEN Advance(r) ELSE Exit(r, 1, "none")
      [] onerr = "already_exists" ->
             IF o.kind = "already_exists" /\ str_in(STR_already_exists, o.msg)
             THEN Advance(r) ELSE Exit(r, 1, "none")
      [] onerr \in {"cleanup_role", "cleanup_policy_role"} ->
             [r EXCEPT !.status = "cleanup"]
      [] onerr = "limit_exceeded" ->
             IF o.kind = "limit_exceeded" THEN Advance(r) ELSE Exit(r, 1, "ClientError")
      [] onerr = "conflict_ok" ->
             IF o.kind = "already_exists" THEN Advance(r) ELSE Exit(r, 1, "ClientError")
      [] OTHER -> Fail(r, onerr, "ClientError")

Called(r, api, o) == [r EXCEPT !.calls = Append(@, [api |-> api, kind |-> o.kind])]

\* a script that passes on the bearer token it was generated with
invoke_bearer_of_args(r) == get(r.args, "bearer_token", STR_empty)

\* runtime.invoke(payload, bearer_token=bearer_token), with
\* bearer_token = response.json()["access_token"]
invoke_bearer(r) == r.token

\* what the script takes from the config files it loaded, given their
\* contents by file
config_env_vars(r, config_files) ==
    (STR_COGNITO_CLIENT_ID :> config_files[F_cognito]["client_id"])
    @@ (STR_COGNITO_CLIENT_SECRET :> config_files[F_cognito]["client_secret"])
    @@ (STR_COGNITO_DISCOVERY_URL :> config_files[F_cognito]["discovery_url"])
    @@ (STR_OAUTH_SCOPES :>
           str_join(STR_space, get(config_files[F_cognito], "scopes",
                                   <<STR_gateway_read, STR_gateway_write>>)))
    @@ (IF F_gateway \in r.loaded
        THEN (STR_GATEWAY_URL :> config_files[F_gateway]["gateway_url"]) ELSE EmptyDict)
    @@ (IF F_memory \in r.loaded
        THEN (STR_MEMORY_ID :> config_files[F_memory]["memory_id"]) ELSE EmptyDict)

\* a script that lets the caller's values override those of the config files
launch_env_vars_caller_last(r, config_files) ==
    r.args["env_vars"] @@ config_env_vars(r, config_files)

\* env_vars = {}; env_vars.update(<caller's>); env_vars["MEMORY_ID"] = ..
launch_env_vars(r, config_files) ==
    config_env_vars(r, config_files) @@ r.args["env_vars"]

\* a listing that prints every value
printed_listing_plain(env_vars) == env_vars

\* for key in env_vars: print(f"  {key}: ***") if "SECRET" in key or
\* "PASSWORD" in key else print(f"  {key}: {env_vars[key]}")
printed_listing(env_vars) ==
    [key \in DOMAIN env_vars |->
        IF str_in(STR_SECRET, key) \/ str_in(STR_PASSWORD, key)
        THEN STR_stars ELSE env_vars[key]]

\* the config files as the script holds them
ConfigFiles == [f \in FileNames |-> files[f].data]

\* what a call sends besides its arguments
Sent(r, api) ==
    CASE api = "oauth2_token" ->
             Bind(r, "Authorization",
                  basic_auth(files[F_cognito].data["client_id"],
                             files[F_cognito].data["client_secret"]))
      [] api = "invoke" -> [r EXCEPT !.bearer = invoke_bearer(r)]
      [] api = "launch" ->
             Bind(Bind(r, "env_vars", launch_env_vars(r, ConfigFiles)),
                  "printed", printed_listing(launch_env_vars(r, ConfigFiles)))
      [] OTHER -> r

\* a status check that knows READY and CREATING only
status_report_short(status) ==
    IF status = STR_READY THEN "ready"
    ELSE IF status = STR_CREATING THEN "in progress"
    ELSE "unknown"

\* if status == "READY": .. elif status in ["CREATING", "UPDATING"]: ..
\* elif status in ["CREATE_FAILED", "UPDATE_FAILED"]: .. else: ..
status_report(status) ==
    IF status = STR_READY THEN "ready"
    ELSE IF status \in {STR_CREATING, STR_UPDATING} THEN "in progress"
    ELSE IF status \in {STR_CREATE_FAILED, STR_UPDATE_FAILED} THEN "failed"
    ELSE "unknown"

\* what the script keeps of the answer: c is the account before, o the answer
Received(r, api, c, o) ==
    CASE api = "oauth2_token" -> [r EXCEPT !.token = access_token]
      [] api = "status" ->
             Bind(Bind(r, "status", o.msg), "report", status_report(o.msg))
      [] api = "create_gateway_target" ->
             Bind(r, "target_id", CHOOSE t \in TargetIds : o.cloud.targets[t] # c.targets[t])
      [] OTHER -> r

step_call ==
    /\ Running
    /\ Cur.op = "call"
    /\ \E o \in IF Cur.api = "oauth2_token"
                 THEN TokenOutcomes(Sent(run, Cur.api).mem["Authorization"], cloud)
                 ELSE ApiOutcomes(Cur.api, get(run.args, "target_id", STR_empty), cloud) :
          /\ cloud' = o.cloud
          /\ run' = IF o.kind = "ok"
                    THEN Advance(Received(Called(Sent(run, Cur.api), Cur.api, o),
                                          Cur.api, cloud, o))
                    ELSE CallFailed(Called(Sent(run, Cur.api), Cur.api, o), Cur.onerr, o)
          /\ files' = IF o.kind = "ok" /\ Cur.api = "configure"
                      THEN [files EXCEPT ![F_yaml] = File(bedrock_agentcore_yaml)]
                      ELSE files
    /\ UNCHANGED <<call, result>>

\* try: var = create(name): the resource is created, or it is there already
\* and the except clause looks it up, or the script fails
step_create ==
    /\ Running
    /\ Cur.op = "create"
    /\ \E o \in IamOutcomes(Cur.api, Cur.key, cloud) :
          /\ cloud' = o.cloud
          /\ run' = IF o.kind = "ok"
                    THEN Advance(Bind(Called(run, Cur.api, o), Cur.file, AwsArn(Cur.key)))
                    ELSE IF o.kind = "already_exists" /\ Cur.onerr = "lookup"
                    THEN After(Called(run, Cur.api, o), "end_try")
                    ELSE Exit(Called(run, Cur.api, o), 1, "ClientError")
    /\ UNCHANGED <<call, result, files>>

\* the name a script gives a role or a policy
IamName(r, name) ==
    IF r.script = "handle_create_runtime_execution_role_script"
    THEN TimeStamped(name, r.n) ELSE name

\* a role or a policy is created, or a policy is attached to a role
step_iam ==
    /\ Running
    /\ Cur.op = "iam"
    /\ \E o \in IamOutcomes(Cur.api, IamName(run, Cur.key), cloud) :
          /\ cloud' = o.cloud
          /\ run' = IF o.kind = "ok"
                    THEN Advance(Called(run, Cur.api, o))
                    ELSE CallFailed(Called(run, Cur.api, o), Cur.onerr, o)
    /\ UNCHANGED <<call, result, files>>

\* the try body ended without an exception: on to the statement after the
\* except clause
step_end_try ==
    /\ Running
    /\ Cur.op = "end_try"
    /\ LET P == Program(run.script)
           rest == {i \in (run.pc + 1)..(Len(P) + 1) :
                       i \in DOMAIN P => P[i].op \notin {"lookup", "format"}}
       IN  run' = [run EXCEPT !.pc = CHOOSE i \in rest : \A j \in rest : i <= j]
    /\ UNCHANGED <<call, result, files, cloud>>

\* the except clause of a create: get the resource that is there
step_lookup ==
    /\ Running
    /\ Cur.op = "lookup"
    /\ \E o \in IamOutcomes(Cur.api, Cur.key, cloud) :
          /\ cloud' = o.cloud
          /\ run' = IF o.kind = "ok"
                    THEN Advance(Bind(Called(run, Cur.api, o), Cur.file, AwsArn(Cur.key)))
                    ELSE Exit(Called(run, Cur.api, o), 1, "ClientError")
    /\ UNCHANGED <<call, result, files>>

\* a policy ARN made from the ARN of a role
policy_arn_role_path(account_id, name) ==
    STR_arn_aws_iam \o account_id \o STR_role_path \o name

\* policy_arn = f"arn:aws:iam::{account_id}:policy/{POLICY_NAME}"
policy_arn(account_id, name) == STR_arn_aws_iam \o account_id \o STR_policy_path \o name

\* the except clause of create_policy: no call, the ARN is put together
step_format ==
    /\ Running
    /\ Cur.op = "format"
    /\ run' = Advance(Bind(run, Cur.file, policy_arn(STR_acct, Cur.key)))
    /\ UNCHANGED <<call, result, files, cloud>>

\* messages = {json.dumps(messages, indent=4)}: what the script holds for a
\* list of (message, role) tuples, each of which json.dumps writes as a list
json_dumps_messages(messages) ==
    [i \in DOMAIN messages |-> [type |-> "list", items |-> messages[i]]]

\* m.get("content"): an attribute of dicts only
has_get(m) == m.type = "dict"

\* for m in messages: if isinstance(m.get("content"), str): ..
step_normalize ==
    /\ Running
    /\ Cur.op = "normalize"
    /\ LET messages == json_dumps_messages(run.args["messages"])
       IN  run' = IF \A i \in DOMAIN messages : has_get(messages[i]) THEN Advance(run)
                  ELSE Exit(run, 1, "AttributeError")
    /\ UNCHANGED <<call, result, files, cloud>>

\* the account after the delete calls of a cleanup, for the role or the
\* policy the run named
deleted(c, calls, name) ==
    IF calls # <<>> /\ calls[1].kind = "ok"
    THEN [c EXCEPT !.setup[IamName(run, name)].exists = FALSE,
                   !.setup[IamName(run, name)].attached = FALSE]
    ELSE c

\* the role script undoing what it created: try: [delete_policy;] delete_role
\* except: pass, then exit(1)
step_cleanup ==
    /\ run.status = "cleanup"
    /\ \E p \in {"ok", "other"}, d \in {"ok", "other"} :
          LET policy == IF Cur.onerr = "cleanup_policy_role"
                        THEN <<[api |-> "delete_policy", kind |-> p]>> ELSE <<>>
              role == IF Cur.onerr = "cleanup_policy_role" /\ p # "ok"
                      THEN <<>> ELSE <<[api |-> "delete_role", kind |-> d]>>
          IN  /\ run' = Exit([run EXCEPT !.calls = @ \o policy \o role], 1, "none")
              /\ cloud' = deleted(deleted(cloud, policy, STR_policy_name), role, STR_role_name)
    /\ UNCHANGED <<call, result, files>>

\* a script that writes a new dict with its three keys
target_keys_only(r) ==
    [target_id |-> r.mem["target_id"], target_name |-> STR_OrderLookup,
     lambda_arn |-> files[F_lambda].data["function_arn"]]

\* a script that reads gateway_config.json again before it adds its keys
reread_gateway_config(r) ==
    [target_id |-> r.mem["target_id"], target_name |-> STR_OrderLookup,
     lambda_arn |-> files[F_lambda].data["function_arn"]] @@ files[F_gateway].data

\* gateway_config["target_id"] = target_id, ["target_name"] = "OrderLookup",
\* ["lambda_arn"] = lambda_arn, on the dict loaded at the start
augmented_gateway_config(r) ==
    [target_id |-> r.mem["target_id"], target_name |-> STR_OrderLookup,
     lambda_arn |-> files[F_lambda].data["function_arn"]] @@ r.mem[F_gateway]

\* the config a script saves at its end
Written(r) ==
    LET region == get(r.args, "region", STR_us_west_2)
    IN  CASE r.script = "handle_memory_create" ->
                 memory_config(STR_m_1, r.args["name"], region)
          [] r.script = "handle_gateway_create" ->
                 gateway_config(STR_g_1, STR_u_1, STR_arn_g1, r.args["name"], region)
          [] r.script = "handle_runtime_launch" ->
                 runtime_output_config(STR_arn_a1, STR_agent, region)
                     @@ (IF F_memory \in r.loaded
                         THEN [memory_id |-> files[F_memory].data["memory_id"]]
                         ELSE EmptyDict)
                     @@ (IF F_gateway \in r.loaded
                         THEN [gateway_url |-> files[F_gateway].data["gateway_url"]]
                         ELSE EmptyDict)
          [] r.script = "handle_create_runtime_execution_role_script" ->
                 runtime_execution_role_config(STR_role_name, STR_arn_r1, STR_policy_name,
                                               STR_arn_p1, region)
          [] r.script = GatewayRoleScript ->
                 gateway_role_config(r.mem["role_arn"], ROLE_NAME(r.script),
                                     r.mem["policy_arn"], POLICY_NAME(r.script),
                                     STR_us_west_2, STR_acct)
          [] r.script = RuntimeRoleScript ->
                 runtime_execution_role_config(ROLE_NAME(r.script), r.mem["role_arn"],
                                               POLICY_NAME(r.script), r.mem["policy_arn"],
                                               STR_us_west_2)
                     @@ [account_id |-> STR_acct]
          [] r.script = LambdaScript ->
                 lambda_config(FUNCTION_NAME, r.mem["function_arn"],
                               r.mem["lambda_role_arn"], STR_us_west_2)
          [] r.script = GatewayScript ->
                 gateway_config(STR_g_1, STR_u_1, STR_arn_g1, STR_ReturnsRefundsGateway,
                                STR_us_west_2)
                     @@ [cognito_client_id |-> files[F_cognito].data["client_id"],
                         cognito_client_secret |-> files[F_cognito].data["client_secret"],
                         token_endpoint |-> files[F_cognito].data["token_endpoint"]]
          [] r.script = AddLambdaScript -> augmented_gateway_config(r)
          [] r.script = CognitoScript ->
                 cognito_config(STR_pool_1, STR_dom_1, STR_c_1, STR_secret, STR_tokurl,
                                STR_u_1, STR_us_west_2, STR_rs)

step_write ==
    /\ Running
    /\ Cur.op = "write"
    /\ files' = [files EXCEPT ![Cur.file] = File(Written(run))]
    /\ run' = Advance(run)
    /\ UNCHANGED <<call, result, cloud>>

\* the script ran to its last line
step_done ==
    /\ run.status = "running"
    /\ run.pc = Len(Program(run.script)) + 1
    /\ run' = Exit(run, 0, "none")
    /\ UNCHANGED <<call, result, files, cloud>>

(***************************************************************************)
(* The gateway delete script (handle_gateway_delete)                       *)
(***************************************************************************)
\* an except clause that prints the error and goes on to the verification
error_printed(r) == After(r, "delete_targets")

\* raise  # Re-raise to prevent gateway deletion
reraise(r) == Exit(r, 1, "ClientError")

\* Step 1: list the targets
step_list_targets ==
    /\ Running
    /\ Cur.op = "list_targets"
    /\ \E o \in ApiOutcomes(Cur.api, STR_empty, cloud) :
          /\ cloud' = o.cloud
          /\ run' = IF o.kind = "ok"
                    THEN Advance([Called(run, Cur.api, o) EXCEPT !.todo = ListedTargets(cloud)])
                    ELSE IF IsNotFoundMessage(Cur.onerr, o.msg)
                    THEN Goto(Called(run, Cur.api, o), "verify_targets")
                    ELSE reraise(Called(run, Cur.api, o))
    /\ UNCHANGED <<call, result, files>>

\* Step 1: delete each listed target; an error other than not-found is
\* re-raised through both handlers
step_delete_target ==
    /\ Running
    /\ Cur.op = "delete_targets"
    /\ IF run.todo = {}
       THEN run' = Advance(run) /\ cloud' = cloud
       ELSE \E t \in run.todo :
              \E o \in ApiOutcomes(Cur.api, t, cloud) :
                 /\ cloud' = o.cloud
                 /\ run' = IF o.kind = "ok" \/ IsNotFoundMessage(Cur.onerr, o.msg)
                           THEN [Called(run, Cur.api, o) EXCEPT !.todo = @ \ {t}]
                           ELSE reraise(Called(run, Cur.api, o))
    /\ UNCHANGED <<call, result, files>>

\* what a listing of the verification found
Verdict(o, c) ==
    IF o.kind = "ok" THEN (IF ListedTargets(c) = {} THEN "empty" ELSE "remaining")
    ELSE IF IsNotFoundMessage("not_found_cs", o.msg) THEN "not_found"
    ELSE "error"

\* Step 1.5: list again; any exception is swallowed by the except clause
step_verify_targets ==
    /\ Running
    /\ Cur.op = "verify_targets"
    /\ \E o \in ApiOutcomes(Cur.api, STR_empty, cloud) :
          LET r == [Called(run, Cur.api, o) EXCEPT !.lists = @ + 1,
                                                   !.verified = Verdict(o, cloud)]
          IN  /\ cloud' = o.cloud
              /\ run' = IF r.verified = "remaining" THEN Advance(r) ELSE Goto(r, "call")
    /\ UNCHANGED <<call, result, files>>

\* Step 1.5: time.sleep(5)
step_sleep ==
    /\ Running
    /\ Cur.op = "sleep"
    /\ run' = Advance([run EXCEPT !.sleeps = @ + 1])
    /\ UNCHANGED <<call, result, files, cloud>>

\* a verification that waits again for as long as targets are listed
recheck_wait_again(r) == Goto(r, "sleep")

\* targets are still listed after the wait: exit(1)
recheck_remaining(r) == Exit(r, 1, "none")

\* Step 1.5: check again after the wait; exit(1) if targets are still listed
step_recheck_targets ==
    /\ Running
    /\ Cur.op = "recheck_targets"
    /\ \E o \in ApiOutcomes(Cur.api, STR_empty, cloud) :
          LET r == [Called(run, Cur.api, o) EXCEPT !.lists = @ + 1,
                                                   !.verified = Verdict(o, cloud)]
          IN  /\ cloud' = o.cloud
              /\ run' = IF r.verified = "remaining" THEN recheck_remaining(r) ELSE Advance(r)
    /\ UNCHANGED <<call, result, files>>

\* AWS finishes deleting a target
target_deletion_completes ==
    /\ \E t \in TargetIds :
          /\ cloud.targets[t] = "DELETING"
          /\ cloud' = [cloud EXCEPT !.targets[t] = "absent"]
    /\ UNCHANGED <<call, result, files, run>>

ScriptStep ==
    \/ step_exists
    \/ step_load
    \/ step_key
    \/ step_call
    \/ step_normalize
    \/ step_iam
    \/ step_cleanup
    \/ step_write
    \/ step_done
    \/ step_list_targets
    \/ step_delete_target
    \/ step_verify_targets
    \/ step_sleep
    \/ step_recheck_targets

Next ==
    \/ run_script
    \/ run_cognito_script
    \/ ScriptStep
    \/ target_deletion_completes

\* the scripts run one after another in one working directory and account
Spec == Init /\ [][Next]_vars

\* a started script keeps executing
FairSpec == Spec /\ WF_vars(ScriptStep)

(***************************************************************************)
(* The standalone scripts, run by hand in the working directory            *)
(***************************************************************************)
MaxSetupRuns == 2

\* a cognito_config.json edited by hand to hold the "domain" the generated
\* invoke script asks for
EditedFiles ==
    [ProvisionedFiles EXCEPT
        ![F_cognito] = File([domain |-> STR_dom_1] @@ ProvisionedFiles[F_cognito].data)]

\* the working directory after 12_add_lambda_to_gateway.py ran
TargetedFiles ==
    [ProvisionedFiles EXCEPT
        ![F_gateway] = File([target_id |-> STR_t_2, target_name |-> STR_OrderLookup,
                             lambda_arn |-> STR_arn_f1] @@ ProvisionedFiles[F_gateway].data)]

NoTargets == [t \in TargetIds |-> "absent"]

\* nothing set up yet; everything set up, without or with a gateway target;
\* the same with a config file changed since
SetupWorlds ==
    {[files |-> NoFiles, cloud |-> NoCloud],
     [files |-> ProvisionedFiles, cloud |-> Provisioned(NoTargets)],
     [files |-> ProvisionedFiles, cloud |-> Provisioned([NoTargets EXCEPT ![STR_t_1] = "READY"])],
     [files |-> EditedFiles, cloud |-> Provisioned(NoTargets)],
     [files |-> TargetedFiles, cloud |-> Provisioned(NoTargets)]}

InitSetup ==
    /\ call = NoCall
    /\ result = NoResult
    /\ \E w \in SetupWorlds : files = w.files /\ cloud = w.cloud
    /\ run = Idle

\* python <one of the standalone scripts>
run_setup_script ==
    /\ run.status \in {"idle", "exited"}
    /\ run.n < MaxSetupRuns
    /\ \E script \in SetupScripts :
          run' = [Start(script, EmptyDict) EXCEPT !.before = files]
    /\ UNCHANGED <<call, result, files, cloud>>

\* the generated scripts run next to them
SetupHandlers == {"handle_runtime_launch", "handle_runtime_invoke", "handle_runtime_status"}

run_generated_script ==
    /\ run.status \in {"idle", "exited"}
    /\ run.n < MaxSetupRuns
    /\ \E h \in SetupHandlers :
         \E args \in ScriptArgs(h) :
            LET r == HandlerResult(h, args)
            IN  /\ r.kind = "return"
                /\ run' = [Start(r.value.code.template, args) EXCEPT !.before = files]
    /\ UNCHANGED <<call, result, files, cloud>>

\* a run of 11_create_gateway.py in another terminal reaches its json.dump
\* while 12_add_lambda_to_gateway.py runs; what it wrote is noted
other_run_writes ==
    /\ Running
    /\ run.script = AddLambdaScript
    /\ "other" \notin DOMAIN run.mem
    /\ files[F_cognito].valid
    /\ LET config == Written([run EXCEPT !.script = GatewayScript])
       IN  /\ files' = [files EXCEPT ![F_gateway] = File(config)]
           /\ run' = Bind(run, "other",
                          [wrote |-> config, after_read |-> F_gateway \in DOMAIN run.mem,
                           before_write |-> ~Wrote(run)])
    /\ UNCHANGED <<call, result, cloud>>

NextSetup ==
    \/ run_setup_script
    \/ run_generated_script
    \/ step_exists
    \/ step_load
    \/ step_key
    \/ step_call
    \/ step_create
    \/ step_iam
    \/ step_end_try
    \/ step_lookup
    \/ step_format
    \/ step_write
    \/ step_done
    \/ other_run_writes

SpecSetup == InitSetup /\ [][NextSetup]_vars

(***************************************************************************)
(* Properties of the generated scripts (checked under Spec and FairSpec)   *)
(***************************************************************************)
GatewayDelete == run.script = "handle_gateway_delete"

CalledApi(api) == \E i \in DOMAIN run.calls : run.calls[i].api = api

\* C2: in the gateway delete script, delete_gateway is called only after the
\* verification confirmed that no targets remain: whenever delete_gateway
\* has been called, the last listing of the verification step returned an
\* empty list or reported that the gateway was not found.
C2_DeleteGatewayOnlyAfterVerified ==
    (GatewayDelete /\ CalledApi("delete_gateway")) =>
        run.verified \in {"empty", "not_found"}

\* C3: the verification of the gateway delete script sleeps at most once and
\* lists the targets at most twice; when targets are still listed on the
\* recheck the script has exited with code 1 and delete_gateway was not
\* called; and whatever AWS answers, a started script terminates.
C3_VerificationBoundedAndTerminates ==
    /\ [](GatewayDelete =>
            /\ run.sleeps <= 1
            /\ run.lists <= 2
            /\ (run.lists = 2 /\ run.verified = "remaining") =>
                  /\ run.status = "exited"
                  /\ run.exit = 1
                  /\ ~CalledApi("delete_gateway"))
    /\ ((GatewayDelete /\ run.status = "running") ~> (run.status = "exited"))

\* targets were still listed after the one wait: exit code 1, gateway kept
C3_Witness ==
    /\ GatewayDelete
    /\ run.status = "exited"
    /\ run.exit = 1
    /\ run.sleeps = 1
    /\ run.lists = 2
    /\ run.verified = "remaining"
    /\ cloud.gateway = "READY"

DeleteScripts ==
    {"handle_memory_delete", "handle_gateway_delete_target", "handle_gateway_delete",
     "handle_runtime_delete"}

\* the config file a delete script looks for
ConfigOf(script) ==
    CASE script = "handle_memory_delete" -> F_memory
      [] script = "handle_runtime_delete" -> F_runtime
      [] OTHER -> F_gateway

\* the delete call of a delete script
DeleteApi(script) ==
    CASE script = "handle_memory_delete" -> "delete_memory"
      [] script = "handle_gateway_delete_target" -> "delete_gateway_target"
      [] script = "handle_gateway_delete" -> "delete_gateway"
      [] script = "handle_runtime_delete" -> "delete_agent_runtime"

LastCall(calls) == calls[Len(calls)]

Rerun ==
    /\ run.script \in DeleteScripts
    /\ run.prev.script = run.script
    /\ run.prev.args = run.args
    /\ run.prev.exit = 0
    /\ run.prev.calls # <<>>
    /\ LastCall(run.prev.calls) = [api |-> DeleteApi(run.script), kind |-> "ok"]

\* C4: a delete script whose delete call fails with resource-not-found ends
\* with exit code 0, and one whose delete call fails with any other error
\* exits 1; so the same delete script run again after a successful deletion,
\* the config file still there and AWS answering not-found, exits 0.
C4_DeleteIsIdempotent ==
    (run.script \in DeleteScripts /\ run.status = "exited" /\ run.calls # <<>>) =>
        /\ (LastCall(run.calls) = [api |-> DeleteApi(run.script), kind |-> "not_found"])
              => run.exit = 0
        /\ (LastCall(run.calls) = [api |-> DeleteApi(run.script), kind |-> "other"])
              => run.exit = 1
        /\ Rerun =>
              /\ files[ConfigOf(run.script)].exists
              /\ LastCall(run.calls).kind \in {"not_found", "other"}
              /\ (\A i \in DOMAIN run.calls : run.calls[i].kind # "other") => run.exit = 0

\* the memory delete script run twice: deleted, then not found, both exit 0
C4_Witness ==
    /\ run.script = "handle_memory_delete"
    /\ Rerun
    /\ run.status = "exited"
    /\ run.exit = 0
    /\ run.calls = <<[api |-> "delete_memory", kind |-> "not_found"]>>
    /\ files[F_memory].exists

\* C5: a delete script whose config file is absent makes no AWS call and
\* exits with code 0 at its first statement.
C5_NoConfigNoCall ==
    (run.script \in DeleteScripts /\ ~files[ConfigOf(run.script)].exists) =>
        /\ run.calls = <<>>
        /\ \/ run.status = "running" /\ run.pc = 1
           \/ run.status = "exited" /\ run.exit = 0

\* the gateway delete script without gateway_config.json, with a gateway
C5_Witness ==
    /\ GatewayDelete
    /\ ~files[F_gateway].exists
    /\ cloud.gateway = "READY"
    /\ run.status = "exited"
    /\ run.exit = 0
    /\ run.calls = <<>>

(***************************************************************************)
(* Config keys between the scripts                                         *)
(***************************************************************************)
\* the config files one generated script writes and later generated scripts read
RoundTripFiles == {F_memory, F_gateway, F_runtime_role, F_runtime}

\* the generated script that writes a config file
CreateScript(f) ==
    CASE f = F_memory -> "handle_memory_create"
      [] f = F_gateway -> "handle_gateway_create"
      [] f = F_runtime_role -> "handle_create_runtime_execution_role_script"
      [] f = F_runtime -> "handle_runtime_launch"

\* the key lookups of a script in a config file
KeyLookups(s, f) ==
    {i \in DOMAIN Program(s) :
        Program(s)[i].op \in {"key", "key_if_loaded"} /\ Program(s)[i].file = f}

\* the generated scripts that read a config file another script wrote
UseScripts ==
    [f \in RoundTripFiles |->
        {s \in SourceHandlers \ {CreateScript(f)} : KeyLookups(s, f) # {}}]

\* the keys those scripts look up in it
KeysRead ==
    [f \in RoundTripFiles |->
        UNION {{Program(s)[i].key : i \in KeyLookups(s, f)} : s \in UseScripts[f]}]

\* the create script of f ran to its end
Created(f) ==
    /\ run.script = CreateScript(f)
    /\ run.status = "exited"
    /\ run.exit = 0

\* a use script running right after the create script of f finished
UsedAfterCreate(f) ==
    /\ run.prev.script = CreateScript(f)
    /\ run.prev.exit = 0
    /\ run.script \in UseScripts[f]

\* C6 (as amended): for each config file, every key the later generated
\* scripts read from it is among the keys its create script has written (the
\* create script may write keys that nothing reads), and a use script run
\* right after the create script finds every key it looks up in that file.
C6_ReadKeysAreWritten ==
    \A f \in RoundTripFiles :
        /\ Created(f) => (KeysRead[f] # {} /\ KeysRead[f] \subseteq DOMAIN files[f].data)
        /\ UsedAfterCreate(f) =>
              \A rd \in run.reads : rd[1] = f => rd[2] \in DOMAIN files[f].data

\* C6 as stated: the keys the create script wrote are exactly the keys read
C6_WrittenKeysAreExactlyRead ==
    \A f \in RoundTripFiles : Created(f) => DOMAIN files[f].data = KeysRead[f]

\* the memory create script, then the retrieve script reading memory_id
C6_Witness ==
    /\ UsedAfterCreate(F_memory)
    /\ run.script = "handle_memory_retrieve"
    /\ <<F_memory, "memory_id">> \in run.reads
    /\ files[F_memory].data = memory_config(STR_m_1, STR_my_mem, STR_us_west_2)
    /\ run.status = "exited"
    /\ run.exit = 0

\* C7: the invoke script, run after 08_create_cognito.py wrote
\* cognito_config.json, finds every key it looks up in that file, so it does
\* not fail on a missing config key before it requests the token.
C7_InvokeFindsCognitoKeys ==
    (/\ run.script = "handle_runtime_invoke"
     /\ run.prev.script = CognitoScript
     /\ run.prev.exit = 0) =>
        /\ \A rd \in run.reads : rd[1] = F_cognito => rd[2] \in DOMAIN files[F_cognito].data
        /\ ~(run.error = "KeyError" /\ ~CalledApi("oauth2_token"))

(***************************************************************************)
(* The generated source text                                               *)
(***************************************************************************)
\* the quote character that opens and closes the literal around a slot
QuoteOf(ctx) == IF ctx = "sq" THEN "'" ELSE "\""

\* what Python's tokenizer makes of the characters text between an opening
\* quote and the closing quote the template supplies: the decoded string, or
\* malformed when the literal ends early, runs into the end of the line, or
\* (in an f-string) meets a brace
RECURSIVE py_string_body(_, _, _, _)
py_string_body(text, i, quote, fstring) ==
    IF i > Len(text) THEN [ok |-> TRUE, value |-> <<>>]
    ELSE IF text[i] = quote \/ text[i] = "\n" THEN [ok |-> FALSE, value |-> <<>>]
    ELSE IF fstring /\ text[i] \in {"{", "}"} THEN [ok |-> FALSE, value |-> <<>>]
    ELSE IF text[i] = "\\"
         THEN IF i = Len(text) THEN [ok |-> FALSE, value |-> <<>>]
              ELSE LET rest == py_string_body(text, i + 2, quote, fstring)
                       c == text[i + 1]
                       decoded == IF c = "n" THEN "\n" ELSE IF c = "t" THEN "\t" ELSE c
                   IN  [ok |-> rest.ok /\ c \in {"n", "t", "\\", "\"", "'"},
                        value |-> <<decoded>> \o rest.value]
    ELSE LET rest == py_string_body(text, i + 1, quote, fstring)
         IN  [ok |-> rest.ok, value |-> <<text[i]>> \o rest.value]

\* f"{x}" of a str: the characters of x, unchanged
py_format(x) == x

\* the characters json.dumps writes between the quotes of a JSON string
RECURSIVE json_dumps_str(_)
json_dumps_str(x) ==
    IF x = <<>> THEN <<>>
    ELSE (CASE Head(x) = "\"" -> <<"\\", "\"">>
            [] Head(x) = "\\" -> <<"\\", "\\">>
            [] Head(x) = "\n" -> <<"\\", "n">>
            [] Head(x) = "\t" -> <<"\\", "t">>
            [] OTHER -> <<Head(x)>>) \o json_dumps_str(Tail(x))

\* the text between the quotes reads back as the string x
IsLiteralOf(text, x, quote, fstring) ==
    LET body == py_string_body(text, 1, quote, fstring)
    IN  body.ok /\ body.value = x

\* the strings inside a JSON-serialised parameter
JsonStrings(expr, val) ==
    CASE expr = "tool_schema" ->
             UNION {{val[i].name, val[i].description} : i \in DOMAIN val}
      [] expr = "messages" -> UNION {{val[i][1], val[i][2]} : i \in DOMAIN val}
      [] expr \in {"payload", "env_vars_dict"} -> {val[k] : k \in DOMAIN val}
      [] expr = "transformed_strategies" -> {}

\* the slot's value appears in the generated source as one literal
SlotWellFormed(slot) ==
    CASE slot.conv = "json.dumps" ->
             \A x \in JsonStrings(slot.expr, slot.val) :
                 IsLiteralOf(json_dumps_str(x), x, "\"", FALSE)
      [] slot.conv = "format" /\ slot.ctx \in {"dq", "sq"} ->
             IsLiteralOf(py_format(slot.val), slot.val, QuoteOf(slot.ctx), FALSE)
      [] slot.conv = "format" /\ slot.ctx = "fdq" /\ slot.expr \notin {"top_k", "hours_back"} ->
             IsLiteralOf(py_format(slot.val), slot.val, "\"", TRUE)
      [] OTHER -> TRUE

\* C11: for every handler and every string value of its parameters, also one
\* that contains a double quote, every interpolated value appears in the
\* generated code as one well-formed Python literal.
C11_GeneratedCodeIsValidPython ==
    (call.handler \in SourceHandlers /\ result.kind = "return") =>
        \A i \in DOMAIN result.value.code.slots : SlotWellFormed(result.value.code.slots[i])

(***************************************************************************)
(* Properties of the standalone scripts (checked under SpecSetup)          *)
(***************************************************************************)
Exited == run.status = "exited"

\* the file a script writes
OutputFile(script) ==
    LET P == Program(script)
    IN  P[CHOOSE i \in DOMAIN P : P[i].op = "write"].file

\* the run ended normally or in an AWS call, not at a file or a key
EndedAtCall(r) ==
    \/ r.pc = Len(Program(r.script)) + 1
    \/ /\ r.pc \in DOMAIN Program(r.script)
       /\ Program(r.script)[r.pc].op \in {"call", "create", "lookup"}

\* every call was answered with success or already-exists
OnlyAlreadyExists(r) ==
    \A i \in DOMAIN r.calls : r.calls[i].kind \in {"ok", "already_exists"}

AnsweredWith(r, kind) == \E i \in DOMAIN r.calls : r.calls[i].kind = kind

ProvisioningScripts ==
    {CognitoScript, GatewayRoleScript, LambdaScript, GatewayScript, AddLambdaScript,
     RuntimeRoleScript}

\* C12: a provisioning script whose create calls are answered with
\* already-exists falls back to a lookup: a run in which no call failed
\* otherwise, and which did not stop at a config file, exits with code 0
\* and has written its config file.
C12_AlreadyExistsFallsBackToLookup ==
    (/\ run.script \in ProvisioningScripts
     /\ Exited
     /\ EndedAtCall(run)
     /\ OnlyAlreadyExists(run)) =>
        (run.exit = 0 /\ Wrote(run))

RoleScripts == {GatewayRoleScript, RuntimeRoleScript}

\* C13: IAM get-or-create is idempotent: however often the role scripts run,
\* each role and policy is created at most once and never changed after its
\* creation, and every run that writes its config file writes the ARN the
\* role has and the ARN the policy has, so the same ones as every other run.
C13_IamGetOrCreateIsIdempotent ==
    /\ \A name \in RoleNames \cup PolicyNames :
          cloud.setup[name].creates <= 1 /\ cloud.setup[name].changes = 0
    /\ (run.script \in RoleScripts /\ Wrote(run)) =>
          LET config == files[OutputFile(run.script)].data
          IN  /\ config["role_arn"] = AwsArn(ROLE_NAME(run.script))
              /\ config["policy_arn"] = AwsArn(POLICY_NAME(run.script))
    /\ (run.script \in RoleScripts /\ Exited /\ OnlyAlreadyExists(run)) =>
          (run.exit = 0 /\ Wrote(run))

\* a second run of the gateway role script found the role and the policy
\* of the first and wrote its config
C13_Witness ==
    /\ run.script = GatewayRoleScript
    /\ Exited
    /\ Wrote(run)
    /\ run.prev.script = GatewayRoleScript
    /\ run.prev.exit = 0
    /\ \E i \in DOMAIN run.prev.calls :
          run.prev.calls[i] = [api |-> "create_policy", kind |-> "ok"]
    /\ \E i \in DOMAIN run.calls :
          run.calls[i] = [api |-> "create_policy", kind |-> "already_exists"]
    /\ files[F_gateway_role].data = run.before[F_gateway_role].data

\* the run came to a statement that opens a config file which is not there
MissedConfig(r) ==
    \E i \in DOMAIN Program(r.script) :
       /\ Program(r.script)[i].op \in {"load", "exists"}
       /\ i <= r.pc
       /\ ~files[Program(r.script)[i].file].exists

\* the calls that create or change a resource
ChangingApis ==
    {"create_role", "create_policy", "attach_role_policy", "create_function",
     "update_function_code", "add_permission", "create_gateway", "create_gateway_target",
     "create_user_pool", "create_user_pool_domain", "create_resource_server",
     "create_user_pool_client", "launch"}

ChangedAccount(r) ==
    \E i \in DOMAIN r.calls : r.calls[i].kind = "ok" /\ r.calls[i].api \in ChangingApis

\* C14: a script (none of these deletes) that opens a prerequisite config
\* file which is absent exits with a non-zero status, and has not made a call
\* that creates or changes a resource before.
C14_MissingConfigIsFatal ==
    (/\ run.script \in SetupScripts \cup SetupHandlers
     /\ Exited
     /\ MissedConfig(run)) =>
        (run.exit # 0 /\ ~ChangedAccount(run))

\* C15: in a setup or test script, a call that fails with anything but
\* already-exists ends the process with a non-zero status.
C15_UnexpectedErrorExitsNonZero ==
    (/\ run.script \in SetupScripts
     /\ Exited
     /\ ~OnlyAlreadyExists(run)) =>
        run.exit # 0

\* the scripts that write a config file of their own
ConfigWriters ==
    {GatewayScript, GatewayRoleScript, RuntimeRoleScript, CognitoScript,
     "handle_runtime_launch"}

\* C16: a script writes its config file only on success: a run that got past
\* its json.dump had every call answered with success or already-exists, and
\* a run that exited with a failure left its config file as it was.
C16_ConfigWrittenOnlyOnSuccess ==
    run.script \in ConfigWriters =>
        /\ Wrote(run) => OnlyAlreadyExists(run)
        /\ (Exited /\ run.exit # 0) =>
              files[OutputFile(run.script)] = run.before[OutputFile(run.script)]

TargetKeys == {"target_id", "target_name", "lambda_arn"}

\* a run of 12_add_lambda_to_gateway.py that no other run wrote into
AddLambdaAlone == run.script = AddLambdaScript /\ Exited /\ "other" \notin DOMAIN run.mem

\* the target keys as this run sets them
TargetKeysSet(config) ==
    /\ config["target_id"] = run.mem["target_id"]
    /\ cloud.targets[config["target_id"]] # "absent"
    /\ config["target_name"] = STR_OrderLookup
    /\ config["lambda_arn"] = files[F_lambda].data["function_arn"]

\* the statement as made: every key present before keeps its value
C17_EveryKeyKeepsItsValue ==
    (AddLambdaAlone /\ run.exit = 0) =>
        LET old == run.before[F_gateway].data
            new == files[F_gateway].data
        IN  /\ DOMAIN new = DOMAIN old \cup TargetKeys
            /\ \A k \in DOMAIN old : new[k] = old[k]
            /\ TargetKeysSet(new)

\* C17: 12_add_lambda_to_gateway.py augments gateway_config.json in place:
\* after a successful run the file holds every key it held before other than
\* target_id, target_name and lambda_arn with its value unchanged, and these
\* three keys set from this run, and no other key; after a failed run the
\* file is as it was.
C17_AugmentsGatewayConfigInPlace ==
    /\ (AddLambdaAlone /\ run.exit = 0) =>
          LET old == run.before[F_gateway].data
              new == files[F_gateway].data
          IN  /\ DOMAIN new = DOMAIN old \cup TargetKeys
              /\ \A k \in DOMAIN old \ TargetKeys : new[k] = old[k]
              /\ TargetKeysSet(new)
    /\ (AddLambdaAlone /\ run.exit # 0) => files[F_gateway] = run.before[F_gateway]

\* a successful run on a gateway_config.json that held six keys; a failed
\* create_gateway_target is reached as well (C17_WitnessFailed)
C17_Witness ==
    /\ AddLambdaAlone
    /\ run.exit = 0
    /\ DOMAIN run.before[F_gateway].data # {}
    /\ TargetKeys \cap DOMAIN run.before[F_gateway].data = {}
    /\ TargetKeys \subseteq DOMAIN files[F_gateway].data

C17_WitnessFailed ==
    /\ AddLambdaAlone
    /\ run.exit = 1
    /\ \E i \in DOMAIN run.calls : run.calls[i].api = "create_gateway_target"

InvokeScripts == {InvokeScript, "handle_runtime_invoke"}

\* i is a token request answered with 200
TokenGranted(r, i) == r.calls[i] = [api |-> "oauth2_token", kind |-> "ok"]

\* C18: in 21_invoke_agent.py and in the generated invoke script the agent
\* is invoked only after a token request, sent with HTTP Basic auth of the
\* base64 of client_id:client_secret, was answered with 200, and with the
\* access_token of that answer as bearer token; a token request answered
\* otherwise ends the script with exit code 1 and the agent is not invoked.
C18_InvokeOnlyWithGrantedToken ==
    run.script \in InvokeScripts =>
        /\ \A j \in DOMAIN run.calls :
              run.calls[j].api = "invoke" =>
                  /\ \E i \in 1..(j - 1) : TokenGranted(run, i)
                  /\ run.bearer = access_token
                  /\ run.mem["Authorization"] =
                         basic_auth(files[F_cognito].data["client_id"],
                                    files[F_cognito].data["client_secret"])
        /\ (\E i \in DOMAIN run.calls :
               run.calls[i].api = "oauth2_token" /\ run.calls[i].kind # "ok") =>
              /\ Exited
              /\ run.exit = 1
              /\ ~CalledApi("invoke")

\* the generated script invoked the agent; 21_invoke_agent.py did, and a
\* refused token request happened (C18_WitnessStandalone, C18_WitnessRefused)
C18_Witness ==
    /\ run.script = "handle_runtime_invoke"
    /\ CalledApi("invoke")

C18_WitnessStandalone ==
    /\ run.script = InvokeScript
    /\ CalledApi("invoke")

C18_WitnessRefused ==
    /\ run.script \in InvokeScripts
    /\ \E i \in DOMAIN run.calls :
          run.calls[i].api = "oauth2_token" /\ run.calls[i].kind # "ok"

\* the other run wrote between this run's read and its write
Interleaved ==
    /\ run.script = AddLambdaScript
    /\ "other" \in DOMAIN run.mem
    /\ run.mem["other"].after_read
    /\ run.mem["other"].before_write

\* C19: nothing guards the config files against concurrent runs: when
\* another run writes gateway_config.json between the read and the write of
\* 12_add_lambda_to_gateway.py, that run ends as it would have otherwise
\* (exit code 0 exactly when its create_gateway_target succeeded), and after
\* its write the file is the copy it read plus its target keys: what the
\* other run wrote is gone.
C19_InterleavedWriteIsLost ==
    (Interleaved /\ Exited) =>
        /\ run.exit = 0 <=>
              \E i \in DOMAIN run.calls :
                 run.calls[i] = [api |-> "create_gateway_target", kind |-> "ok"]
        /\ run.exit = 0 =>
              /\ files[F_gateway].data =
                     [k \in DOMAIN run.before[F_gateway].data \cup TargetKeys |->
                         IF k = "target_id" THEN run.mem["target_id"]
                         ELSE IF k = "target_name" THEN STR_OrderLookup
                         ELSE IF k = "lambda_arn" THEN files[F_lambda].data["function_arn"]
                         ELSE run.before[F_gateway].data[k]]
              /\ files[F_gateway].data # run.mem["other"].wrote
              /\ \A k \in DOMAIN run.mem["other"].wrote \ DOMAIN run.before[F_gateway].data :
                    k \notin DOMAIN files[F_gateway].data

\* the interleaving happened, the run succeeded, and the other run had
\* written keys the file did not hold before
C19_Witness ==
    /\ Interleaved
    /\ Exited
    /\ run.exit = 0
    /\ DOMAIN run.mem["other"].wrote \ DOMAIN run.before[F_gateway].data # {}

(***************************************************************************)
(* The create-event script and its messages (checked under Spec)           *)
(***************************************************************************)
\* C20: for messages given as a list of (message, role) pairs, the generated
\* create-event script gets to memory_client.create_event: its normalisation
\* of the messages does not end the run with an exception.
C20_PairsReachCreateEvent ==
    (/\ run.script = "handle_memory_create_event"
     /\ run.args["messages"] # <<>>
     /\ Exited) =>
        run.error # "AttributeError"

(***************************************************************************)
(* The status check (checked under SpecSetup)                              *)
(***************************************************************************)
StatusScripts == {StatusScript, "handle_runtime_status"}

\* the answers of runtime.status() in this run
StatusAnswered(r) == \E i \in DOMAIN r.calls : r.calls[i] = [api |-> "status", kind |-> "ok"]

C21_WitnessAbsent ==
    /\ run.script \in StatusScripts
    /\ Exited
    /\ ~files[F_runtime].exists

(***************************************************************************)
(* Step 1 of the gateway delete script (checked under Spec)                *)
(***************************************************************************)
\* the statement of the script that has this op
StatementOf(script, op) ==
    CHOOSE i \in DOMAIN Program(script) : Program(script)[i].op = op

\* call i is the listing of Step 1 or a delete of a listed target, and
\* failed with something else than not-found
Step1Failed(r, i) ==
    /\ \/ i = 1 /\ r.calls[i].api = "list_gateway_targets"
       \/ r.calls[i].api = "delete_gateway_target"
    /\ r.calls[i].kind \notin {"ok", "not_found"}

\* C22: in the gateway delete script, a listing of Step 1 or a delete of a
\* listed target that fails with an error other than not-found is the last
\* call of the run, which ends with exit code 1 without delete_gateway; a
\* not-found answer to a delete does not end the loop: the run stops inside
\* the loop only on such an error, and once past the loop every listed
\* target has had its delete call.
C22_TargetErrorPreventsGatewayDelete ==
    GatewayDelete =>
        /\ \A i \in DOMAIN run.calls :
              Step1Failed(run, i) =>
                  /\ i = Len(run.calls)
                  /\ Exited
                  /\ run.exit = 1
                  /\ ~CalledApi("delete_gateway")
        /\ (Exited /\ run.pc = StatementOf(run.script, "delete_targets")) =>
              Step1Failed(run, Len(run.calls))
        /\ run.pc > StatementOf(run.script, "delete_targets") => run.todo = {}

\* a delete answered not-found was followed by the delete of another target;
\* a delete that failed otherwise ended a run (C22_WitnessFailed)
C22_Witness ==
    /\ GatewayDelete
    /\ \E i \in DOMAIN run.calls :
          /\ run.calls[i] = [api |-> "delete_gateway_target", kind |-> "not_found"]
          /\ \E j \in (i + 1)..Len(run.calls) :
                run.calls[j] = [api |-> "delete_gateway_target", kind |-> "ok"]

C22_WitnessFailed ==
    /\ GatewayDelete
    /\ Exited
    /\ \E i \in DOMAIN run.calls :
          run.calls[i].api = "delete_gateway_target" /\ Step1Failed(run, i)

(***************************************************************************)
(* The order-lookup Lambda function: lambda_code of 10_create_lambda.py    *)
(***************************************************************************)
\* clock readings per day: a datetime is a number of readings since day 0
TicksPerDay == 2

\* days the clock runs after the first execution environment started
MaxAge == 2

\* the oldest purchase, in days, of the orders handed to
\* calculate_return_eligibility
MaxDaysOld == 33

\* the day on which the first execution environment starts
FirstDay == 45

\* 30-day return window for electronics
RETURN_WINDOW == 30

UpperChar(c) ==
    IF \E i \in DOMAIN LowerLetters : LowerLetters[i] = c
    THEN UpperLetters[CHOOSE i \in DOMAIN LowerLetters : LowerLetters[i] = c]
    ELSE c

\* s.upper()
str_upper(s) == [i \in 1..Len(s) |-> UpperChar(s[i])]

\* timedelta(days=n)
timedelta(days) == days * TicksPerDay

\* t.strftime("%Y-%m-%d"): the date of t, the time of day is dropped
strftime(t) == t \div TicksPerDay

\* datetime.strptime(s, "%Y-%m-%d"): midnight of that date
strptime(date) == date * TicksPerDay

\* delta.days: whole days, rounded down
timedelta_days(delta) == delta \div TicksPerDay

STR_ORD_002 == <<"O","R","D","-","0","0","2">>
STR_ORD_003 == <<"O","R","D","-","0","0","3">>
STR_ORD_009 == <<"O","R","D","-","0","0","9">>
STR_ord_002 == <<"o","r","d","-","0","0","2">>
STR_Ord_003 == <<"O","r","d","-","0","0","3">>

Order(order_id, product_name, days, amount, condition, now) ==
    [order_id |-> order_id,
     product_name |-> product_name,
     purchase_date |-> strftime(now - timedelta(days)),
     amount |-> amount,
     category |-> "electronics",
     condition |-> condition,
     status |-> "delivered"]

\* ORDERS = {...}, evaluated when the module is imported at time now
ORDERS_at(now) ==
    (STR_ORD_001 :> Order(STR_ORD_001, "Dell XPS 15 Laptop", 15, "1299.99", "unopened", now))
    @@ (STR_ORD_002 :> Order(STR_ORD_002, "iPhone 13 Pro", 45, "999.99", "opened", now))
    @@ (STR_ORD_003 :> Order(STR_ORD_003, "Samsung Galaxy Tab S8", 5, "649.99", "defective", now))

\* an execution environment: its clock, when it imported the module, and
\* the module's global
Environment(now) == [now |-> now, imported |-> now, ORDERS |-> ORDERS_at(now)]

ORDERS == cloud.ORDERS

Eligibility(eligible, reason, days_remaining) ==
    [eligible |-> eligible, reason |-> reason, days_remaining |-> days_remaining]

\* a variant in which a defective item is eligible whatever its age
calculate_return_eligibility_defective_first(order) ==
    LET purchase_date == strptime(order.purchase_date)
        days_since_purchase == timedelta_days(cloud.now - purchase_date)
    IN  IF order.condition = "defective"
        THEN Eligibility(TRUE, <<"Defective item - full refund available">>,
                         RETURN_WINDOW - days_since_purchase)
        ELSE IF days_since_purchase > RETURN_WINDOW
        THEN Eligibility(FALSE, <<"Return window expired (", days_since_purchase,
                                  " days since purchase)">>, 0)
        ELSE Eligibility(TRUE, <<"Within return window">>,
                         RETURN_WINDOW - days_since_purchase)

calculate_return_eligibility(order) ==
    LET purchase_date == strptime(order.purchase_date)
        days_since_purchase == timedelta_days(cloud.now - purchase_date)
    IN  IF days_since_purchase > RETURN_WINDOW
        THEN Eligibility(FALSE, <<"Return window expired (", days_since_purchase,
                                  " days since purchase)">>, 0)
        ELSE IF order.condition = "defective"
        THEN Eligibility(TRUE, <<"Defective item - full refund available">>,
                         RETURN_WINDOW - days_since_purchase)
        ELSE Eligibility(TRUE, <<"Within return window">>,
                         RETURN_WINDOW - days_since_purchase)

\* Python values of an event: a type and, for str and dict, the value
PyStr(s) == [type |-> "str", value |-> s]
PyNone == [type |-> "NoneType", value |-> <<>>]
PyInt == [type |-> "int", value |-> <<"7">>]
PyDict(d) == [type |-> "dict", value |-> d]

Returned(value) == [kind |-> "return", value |-> value]

\* json.dumps of a response body
json_dumps(body) == [json |-> body]

Response(statusCode, body) ==
    Returned([statusCode |-> statusCode, body |-> json_dumps(body)])

\* the try block of lambda_handler
lambda_handler_try(event, context) ==
    IF event.type # "dict"
    THEN Raise("AttributeError")
    ELSE LET value == get(event.value, "order_id", PyStr(STR_empty))
         IN  IF value.type # "str"
             THEN Raise("AttributeError")
             ELSE LET order_id == str_upper(value.value)
                  IN  IF order_id = STR_empty
                      THEN Response(400, [error |-> <<"Missing order_id parameter">>])
                      ELSE IF order_id \notin DOMAIN ORDERS
                      THEN Response(404, [error |-> <<"Order ", order_id, " not found">>,
                                          available_orders |-> DOMAIN ORDERS])
                      ELSE LET order == ORDERS[order_id]
                               eligibility == calculate_return_eligibility(order)
                           IN  Response(200, order @@ [return_eligibility |-> eligibility])

\* the handler without its except clause
lambda_handler_uncaught(event, context) == lambda_handler_try(event, context)

lambda_handler(event, context) ==
    LET tried == lambda_handler_try(event, context)
    IN  IF tried.kind = "raise"
        THEN Response(500, [error |-> <<"Internal error: ", tried.exc>>])
        ELSE tried

\* the events the function is invoked with
Events ==
    {PyNone, PyDict(EmptyDict)}
    \cup {PyDict([order_id |-> v]) :
            v \in {PyStr(s) : s \in {STR_empty, STR_ORD_001, STR_ORD_002, STR_ORD_003,
                                     STR_ord_002, STR_Ord_003, STR_ORD_009}}
                  \cup {PyNone, PyInt}}

\* the orders calculate_return_eligibility is applied to
Conditions == {"unopened", "opened", "defective"}

SomeOrders ==
    {Order(STR_ORD_009, "item", days, "1.00", condition, cloud.now) :
        days \in 0..MaxDaysOld, condition \in Conditions}

InitLambda ==
    /\ call = NoCall
    /\ result = NoResult
    /\ files = NoFiles
    /\ run = Idle
    /\ \E tick \in 0..(TicksPerDay - 1) :
          cloud = Environment(FirstDay * TicksPerDay + tick)

\* the clock of the execution environment advances
clock_advances ==
    /\ cloud.now < timedelta(FirstDay + MaxAge)
    /\ cloud' = [cloud EXCEPT !.now = @ + 1]
    /\ UNCHANGED <<call, result, files, run>>

\* a new execution environment imports the module
cold_start ==
    /\ cloud.imported < cloud.now
    /\ cloud' = Environment(cloud.now)
    /\ call' = NoCall
    /\ result' = NoResult
    /\ UNCHANGED <<files, run>>

invoke_lambda ==
    \E event \in Events :
        /\ call' = [handler |-> "lambda_handler", args |-> event, at |-> cloud.now]
        /\ result' = lambda_handler(event, "context")
        /\ UNCHANGED <<files, cloud, run>>

apply_calculate_return_eligibility ==
    \E order \in SomeOrders :
        /\ call' = [handler |-> "calculate_return_eligibility", args |-> order,
                    at |-> cloud.now]
        /\ result' = Returned(calculate_return_eligibility(order))
        /\ UNCHANGED <<files, cloud, run>>

NextLambda ==
    \/ clock_advances
    \/ cold_start
    \/ invoke_lambda
    \/ apply_calculate_return_eligibility

SpecLambda == InitLambda /\ [][NextLambda]_vars

\* the date of a clock reading
DateOf(t) == t \div TicksPerDay

\* the whole days between the purchase date of an order and the call
DaysSincePurchase(order) == DateOf(call.at) - order.purchase_date

EligibilityFollowsWindow(order, eligibility) ==
    LET d == DaysSincePurchase(order)
    IN  /\ eligibility.eligible <=> d <= 30
        /\ eligibility.eligible => eligibility.days_remaining = 30 - d
        /\ ~eligibility.eligible => eligibility.days_remaining = 0
        /\ eligibility.days_remaining \in 0..30

Answered200 ==
    /\ call.handler = "lambda_handler"
    /\ result.value.statusCode = 200

\* C23: the result of calculate_return_eligibility for an order bought d
\* whole days before the call is eligible exactly when d <= 30, with
\* days_remaining 30 - d when eligible and 0 when not, hence within 0..30,
\* whatever the condition of the order; in an environment that imported the
\* module on the day of the call, ORD-001 and ORD-003 are eligible and
\* ORD-002 is not.
C23_EligibleWithinThirtyDays ==
    /\ call.handler = "calculate_return_eligibility" =>
          EligibilityFollowsWindow(call.args, result.value)
    /\ Answered200 =>
          /\ EligibilityFollowsWindow(result.value.body.json,
                                      result.value.body.json.return_eligibility)
          /\ DateOf(call.at) = DateOf(cloud.imported) =>
                (result.value.body.json.return_eligibility.eligible
                    <=> result.value.body.json.order_id \in {STR_ORD_001, STR_ORD_003})

\* a defective order bought 31 days before the call was found not eligible;
\* a defective order on the last day of the window was found eligible
\* (C23_WitnessLastDay); ORD-002 was looked up (C23_WitnessSample)
C23_Witness ==
    /\ call.handler = "calculate_return_eligibility"
    /\ call.args.condition = "defective"
    /\ DaysSincePurchase(call.args) = 31
    /\ ~result.value.eligible

C23_WitnessLastDay ==
    /\ call.handler = "calculate_return_eligibility"
    /\ call.args.condition = "defective"
    /\ DaysSincePurchase(call.args) = 30
    /\ result.value.eligible
    /\ result.value.days_remaining = 0

C23_WitnessSample ==
    /\ Answered200
    /\ result.value.body.json.order_id = STR_ORD_002
    /\ DaysSincePurchase(result.value.body.json) = 45
    /\ ~result.value.body.json.return_eligibility.eligible

\* the order_id of the event of the call, when it is a str
HasOrderId ==
    /\ call.args.type = "dict"
    /\ "order_id" \in DOMAIN call.args.value
    /\ call.args.value.order_id.type = "str"

OrderIdMissingOrEmpty ==
    /\ call.args.type = "dict"
    /\ \/ "order_id" \notin DOMAIN call.args.value
       \/ HasOrderId /\ Len(call.args.value.order_id.value) = 0

UpperCasedOrderId == str_upper(call.args.value.order_id.value)

KnownOrders == {STR_ORD_001, STR_ORD_002, STR_ORD_003}

OrderFields ==
    {"order_id", "product_name", "purchase_date", "amount", "category", "condition",
     "status"}

\* C24: lambda_handler returns for every event, with a statusCode among 200,
\* 400, 404 and 500: 400 exactly when order_id is absent or the empty
\* string, 404 exactly when the upper-cased order_id is non-empty and no
\* known order, 200 exactly when the upper-cased order_id is a known order,
\* the body then holding the fields of that order and return_eligibility,
\* and 500 only when the event or its order_id has no such str method, so
\* that the try block raised.
C24_LambdaHandlerStatusCodes ==
    call.handler = "lambda_handler" =>
        /\ result.kind = "return"
        /\ result.value.statusCode \in {200, 400, 404, 500}
        /\ result.value.statusCode = 400 <=> OrderIdMissingOrEmpty
        /\ result.value.statusCode = 404 <=>
              (HasOrderId /\ Len(UpperCasedOrderId) > 0
                          /\ UpperCasedOrderId \notin KnownOrders)
        /\ result.value.statusCode = 200 <=>
              (HasOrderId /\ UpperCasedOrderId \in KnownOrders)
        /\ result.value.statusCode = 200 =>
              /\ DOMAIN result.value.body.json = OrderFields \cup {"return_eligibility"}
              /\ result.value.body.json.order_id = UpperCasedOrderId
              /\ DOMAIN result.value.body.json.return_eligibility
                    = {"eligible", "reason", "days_remaining"}
        /\ result.value.statusCode = 500 =>
              (call.args.type # "dict" \/ ("order_id" \in DOMAIN call.args.value /\ ~HasOrderId))

\* an order was found under a lower-case id; an order_id that is no str was
\* answered with 500 (C24_WitnessInternal); an unknown id with 404
\* (C24_WitnessUnknown); an event without order_id with 400
\* (C24_WitnessMissing)
C24_Witness ==
    /\ Answered200
    /\ call.args.value.order_id.value = STR_ord_002
    /\ result.value.body.json.order_id = STR_ORD_002

C24_WitnessInternal ==
    /\ call.handler = "lambda_handler"
    /\ call.args.type = "dict"
    /\ "order_id" \in DOMAIN call.args.value
    /\ call.args.value.order_id.type = "int"
    /\ result.value.statusCode = 500

C24_WitnessUnknown ==
    /\ call.handler = "lambda_handler"
    /\ HasOrderId
    /\ call.args.value.order_id.value = STR_ORD_009
    /\ result.value.statusCode = 404

C24_WitnessMissing ==
    /\ call.handler = "lambda_handler"
    /\ call.args.type = "dict"
    /\ "order_id" \notin DOMAIN call.args.value
    /\ result.value.statusCode = 400

(***************************************************************************)
(* The execution role of the order-lookup function (checked under          *)
(* SpecSetup)                                                              *)
(***************************************************************************)
\* C25: whatever runs went before, a run of 10_create_lambda.py that ends
\* with exit code 0 leaves OrderLookupLambdaRole with its basic execution
\* policy attached.
C25_SuccessfulRunLeavesPolicyAttached ==
    (run.script = LambdaScript /\ Exited /\ run.exit = 0) =>
        cloud.setup[LAMBDA_ROLE_NAME].attached

(***************************************************************************)
(* The environment of the launch script (checked under Spec)               *)
(***************************************************************************)
\* the launch script got as far as runtime.launch
Launched ==
    /\ run.script = "handle_runtime_launch"
    /\ "env_vars" \in DOMAIN run.mem

CognitoKeys ==
    {STR_COGNITO_CLIENT_ID, STR_COGNITO_CLIENT_SECRET, STR_COGNITO_DISCOVERY_URL,
     STR_OAUTH_SCOPES}

\* env var key is set from the key entry of config file f when f exists, and
\* is the caller's, if the caller gave one, when it does not
OptionalFromConfig(key, f, entry) ==
    LET env_vars == run.mem["env_vars"]
        caller == run.args["env_vars"]
    IN  IF files[f].exists
        THEN key \in DOMAIN env_vars /\ env_vars[key] = files[f].data[entry]
        ELSE /\ key \in DOMAIN env_vars <=> key \in DOMAIN caller
             /\ key \in DOMAIN caller => env_vars[key] = caller[key]

\* C26: the env_vars handed to runtime.launch hold every key the caller
\* gave; the four Cognito keys have the values of cognito_config.json,
\* MEMORY_ID and GATEWAY_URL those of memory_config.json and
\* gateway_config.json when these files exist and the caller's otherwise,
\* and every other key has the caller's value.
C26_ConfigValuesOverrideCallerEnv ==
    Launched =>
        LET env_vars == run.mem["env_vars"]
            caller == run.args["env_vars"]
            cognito == files[F_cognito].data
        IN  /\ DOMAIN caller \subseteq DOMAIN env_vars
            /\ CognitoKeys \subseteq DOMAIN env_vars
            /\ env_vars[STR_COGNITO_CLIENT_ID] = cognito["client_id"]
            /\ env_vars[STR_COGNITO_CLIENT_SECRET] = cognito["client_secret"]
            /\ env_vars[STR_COGNITO_DISCOVERY_URL] = cognito["discovery_url"]
            /\ env_vars[STR_OAUTH_SCOPES]
                  = cognito["scopes"][1] \o STR_space \o cognito["scopes"][2]
            /\ OptionalFromConfig(STR_MEMORY_ID, F_memory, "memory_id")
            /\ OptionalFromConfig(STR_GATEWAY_URL, F_gateway, "gateway_url")
            /\ \A key \in DOMAIN env_vars \ (CognitoKeys \cup {STR_MEMORY_ID, STR_GATEWAY_URL}) :
                  key \in DOMAIN caller /\ env_vars[key] = caller[key]

\* the caller's MEMORY_ID and COGNITO_CLIENT_SECRET were overwritten
\* (C26_Witness, C26_WitnessSecret); with memory_config.json absent the
\* caller's MEMORY_ID was passed on (C26_WitnessAbsent)
C26_Witness ==
    /\ Launched
    /\ STR_MEMORY_ID \in DOMAIN run.args["env_vars"]
    /\ run.mem["env_vars"][STR_MEMORY_ID] = STR_m_1
    /\ run.mem["env_vars"][STR_KNOWLEDGE_BASE_ID] = STR_kb_1

C26_WitnessSecret ==
    /\ Launched
    /\ STR_COGNITO_CLIENT_SECRET \in DOMAIN run.args["env_vars"]
    /\ run.mem["env_vars"][STR_COGNITO_CLIENT_SECRET] = STR_secret

C26_WitnessAbsent ==
    /\ Launched
    /\ ~files[F_memory].exists
    /\ STR_MEMORY_ID \in DOMAIN run.args["env_vars"]
    /\ run.mem["env_vars"][STR_MEMORY_ID] = STR_m_2

\* the values cognito_config.json can hold as client_secret
ClientSecrets == {STR_secret, STR_c_2, STR_hunter2}

\* the listing a run prints whose cognito_config.json holds this secret and
\* which is otherwise the run at hand
ListingWithSecret(client_secret) ==
    printed_listing(
        launch_env_vars(run, [ConfigFiles EXCEPT ![F_cognito]["client_secret"] = client_secret]))

\* C27: in the listing of the launch script every key that contains SECRET
\* or PASSWORD is followed by *** and not by its value, and the listing is
\* the one the run would have printed with any other client secret in
\* cognito_config.json.
C27_ListingHidesSecrets ==
    Launched =>
        /\ \A key \in DOMAIN run.mem["printed"] :
              (str_in(STR_SECRET, key) \/ str_in(STR_PASSWORD, key)) =>
                  /\ run.mem["printed"][key] = STR_stars
                  /\ run.mem["printed"][key] # run.mem["env_vars"][key]
        /\ DOMAIN run.mem["printed"] = DOMAIN run.mem["env_vars"]
        /\ \A client_secret \in ClientSecrets :
              ListingWithSecret(client_secret) = run.mem["printed"]

\* a listing with the client secret and the caller's DB_PASSWORD hidden and
\* the client id shown
C27_Witness ==
    /\ Launched
    /\ STR_DB_PASSWORD \in DOMAIN run.mem["printed"]
    /\ run.mem["printed"][STR_DB_PASSWORD] = STR_stars
    /\ run.mem["env_vars"][STR_DB_PASSWORD] = STR_hunter2
    /\ run.mem["printed"][STR_COGNITO_CLIENT_SECRET] = STR_stars
    /\ run.mem["env_vars"][STR_COGNITO_CLIENT_SECRET] = STR_secret
    /\ run.mem["printed"][STR_COGNITO_CLIENT_ID] = STR_c_1

(***************************************************************************)
(* The generated runtime execution role script (checked under Spec)        *)
(***************************************************************************)
RoleScript == run.script = "handle_create_runtime_execution_role_script"

\* the run made this call and it succeeded
Succeeded(api) == \E i \in DOMAIN run.calls : run.calls[i] = [api |-> api, kind |-> "ok"]

\* the run made this call and it failed
Failed(api) ==
    \E i \in DOMAIN run.calls : run.calls[i].api = api /\ run.calls[i].kind # "ok"

\* C28: the role script writes runtime_execution_role_config.json only
\* after create_role, create_policy and attach_role_policy all succeeded;
\* when create_policy or attach_role_policy failed it ends with exit code 1
\* having called delete_role, and delete_policy if it had created the
\* policy, and neither the role nor the policy the run created is left in
\* the account.
C28_FailedRunLeavesNothingBehind ==
    RoleScript =>
        /\ Wrote(run) =>
              (Succeeded("create_role") /\ Succeeded("create_policy")
                  /\ Succeeded("attach_role_policy"))
        /\ (Exited /\ (Failed("create_policy") \/ Failed("attach_role_policy"))) =>
              /\ run.exit = 1
              /\ ~Wrote(run)
              /\ CalledApi("delete_role")
              /\ Succeeded("create_policy") => CalledApi("delete_policy")
              /\ ~cloud.setup[TimeStamped(STR_role_name, run.n)].exists
              /\ ~cloud.setup[TimeStamped(STR_policy_name, run.n)].exists

(***************************************************************************)
(* The protocol check of handle_gateway_create (checked under SpecHandlers)*)
(***************************************************************************)
GatewayCreateCalled == call.handler = "handle_gateway_create"

ProtocolIsMCP ==
    "protocol_type" \in DOMAIN call.args => call.args["protocol_type"] = STR_MCP

\* C29: handle_gateway_create called without protocol_type or with "MCP"
\* returns a payload, whose script names the protocol MCP; called with any
\* other protocol_type it raises ValueError and its result holds no payload.
C29_OnlyMCPYieldsGatewayScript ==
    GatewayCreateCalled =>
        IF ProtocolIsMCP
        THEN /\ ReturnsPayload
             /\ \E i \in DOMAIN result.value.code.slots :
                   /\ result.value.code.slots[i].expr = "protocol_type"
                   /\ result.value.code.slots[i].val = STR_MCP
        ELSE /\ result.kind = "raise"
             /\ result.exc = "ValueError"
             /\ "value" \notin DOMAIN result

\* a call without protocol_type returned a payload; "mcp" in lower case was
\* rejected (C29_WitnessRejected)
C29_Witness ==
    /\ GatewayCreateCalled
    /\ "protocol_type" \notin DOMAIN call.args
    /\ ReturnsPayload

C29_WitnessRejected ==
    /\ GatewayCreateCalled
    /\ "protocol_type" \in DOMAIN call.args
    /\ call.args["protocol_type"] = STR_mcp
    /\ result = Raise("ValueError")

====
